---------------------------- MODULE Spec2Model ----------------------------
(***************************************************************************)
(* A model of xcresult_gui_v6.py: the extractor invocation                 *)
(* (run_xcresulttool), the schema normaliser (deep_iter, extract_counts,   *)
(* _extract_details_from_summary), the orchestration entry point           *)
(* (_process_xcresult_to_html), the attachment export                       *)
(* (_export_attachments), the report renderer (build_html), the CLI entry  *)
(* point (run_cli, main), the output path of the desktop front end         *)
(* (_next_available_report_path, XCResultGUI._generate_html), and the      *)
(* upload handler of the web front end (server/app.py).                    *)
(*                                                                         *)
(* A parsed JSON document is a tagged value.  Every value is a record with *)
(* the same five fields, so that values of different Python types can be   *)
(* compared:                                                               *)
(*   t     the Python type: "null", "bool", "int", "float", "nan", "str",  *)
(*         "list", "dict"                                                  *)
(*   n     the number of an int, 1/0 of a bool, twice the value of a       *)
(*         finite float (so that x.5 is representable)                     *)
(*   s     the characters of a str, a sequence of one-character strings    *)
(*   keys  the keys of a dict, in insertion order, without duplicates      *)
(*   items the elements of a list, or the values of a dict (items[i] is    *)
(*         the value of keys[i])                                           *)
(***************************************************************************)
EXTENDS Integers, Sequences, FiniteSets, TLC

VARIABLES
    mode,        \* which entry point is exercised: "normalize", "pipeline", "render",
                 \* "gui" or "web"
    data,        \* the parsed document handed to the normaliser
    pc,          \* position of the run
    counts,      \* what extract_counts returned: <<passed, failed, skipped>>
    details,     \* what _extract_details_from_summary returned
    tool,        \* run_xcresulttool: its loop state and the commands it has run
    cfg,         \* the configuration of the orchestrator call
    fs,          \* the files the orchestrator has written
    screenshots, \* what _export_attachments returned to the orchestrator
    outcome,     \* how _process_xcresult_to_html ended
    cli,         \* run_cli: whether it has returned, and its exit code
    gui,         \* XCResultGUI: the output path, the files of its directory, and
                 \* what the last "Generate HTML" did
    web          \* the web front end: the paths that exist and each request's position

vars ==
    <<mode, data, pc, counts, details, tool, cfg, fs, screenshots, outcome, cli, gui, web>>

---------------------------------------------------------------------------
(* Python values *)

NullV == [t |-> "null", n |-> 0, s |-> <<>>, keys |-> <<>>, items |-> <<>>]

BoolV(b) == [t |-> "bool", n |-> IF b THEN 1 ELSE 0, s |-> <<>>, keys |-> <<>>, items |-> <<>>]

IntV(i) == [t |-> "int", n |-> i, s |-> <<>>, keys |-> <<>>, items |-> <<>>]

\* a finite float, given as twice its value: FloatV(5) is 2.5
FloatV(h) == [t |-> "float", n |-> h, s |-> <<>>, keys |-> <<>>, items |-> <<>>]

\* json.loads reads NaN and Infinity as non-finite floats
NanV == [t |-> "nan", n |-> 0, s |-> <<>>, keys |-> <<>>, items |-> <<>>]

StrV(chars) == [t |-> "str", n |-> 0, s |-> chars, keys |-> <<>>, items |-> <<>>]

ListV(elems) == [t |-> "list", n |-> 0, s |-> <<>>, keys |-> <<>>, items |-> elems]

DictV(ks, vs) == [t |-> "dict", n |-> 0, s |-> <<>>, keys |-> ks, items |-> vs]

EmptyDict == DictV(<<>>, <<>>)

\* isinstance(v, dict), isinstance(v, list), isinstance(v, str)
IsDict(v) == v.t = "dict"

IsList(v) == v.t = "list"

IsStr(v) == v.t = "str"

\* k in d
HasKey(d, k) == \E i \in 1..Len(d.keys) : d.keys[i] = k

\* d[k] for a key that is present
Lookup(d, k) == d.items[CHOOSE i \in 1..Len(d.keys) : d.keys[i] = k]

\* d.get(k, default)
Get(d, k, default) == IF HasKey(d, k) THEN Lookup(d, k) ELSE default

\* bool(v): Python's truth value
Truthy(v) ==
    CASE v.t = "null" -> FALSE
      [] v.t = "bool" -> v.n = 1
      [] v.t = "int" -> v.n # 0
      [] v.t = "float" -> v.n # 0
      [] v.t = "nan" -> TRUE
      [] v.t = "str" -> Len(v.s) > 0
      [] v.t = "list" -> Len(v.items) > 0
      [] v.t = "dict" -> Len(v.keys) > 0

\* a or b
Or(a, b) == IF Truthy(a) THEN a ELSE b

---------------------------------------------------------------------------
(* int(v): the result is [ok |-> TRUE, val |-> i], or ok = FALSE when      *)
(* Python raises ValueError, TypeError or OverflowError.                   *)

Raised == [ok |-> FALSE, val |-> 0]

Ok(i) == [ok |-> TRUE, val |-> i]

Digits == <<"0", "1", "2", "3", "4", "5", "6", "7", "8", "9">>

IsDigit(c) == \E d \in 1..10 : Digits[d] = c

DigitVal(c) == (CHOOSE d \in 1..10 : Digits[d] = c) - 1

IsSpace(c) == c \in {" ", "\t", "\n"}

RECURSIVE LStrip(_)
LStrip(chars) ==
    IF chars # <<>> /\ IsSpace(Head(chars)) THEN LStrip(Tail(chars)) ELSE chars

RECURSIVE RStrip(_)
RStrip(chars) ==
    IF chars # <<>> /\ IsSpace(chars[Len(chars)])
    THEN RStrip(SubSeq(chars, 1, Len(chars) - 1))
    ELSE chars

\* str.strip()
Strip(chars) == RStrip(LStrip(chars))

\* the digits of an integer literal: digits, with single underscores between them
IsDigitString(chars) ==
    /\ chars # <<>>
    /\ IsDigit(chars[1])
    /\ IsDigit(chars[Len(chars)])
    /\ \A i \in 1..Len(chars) : IsDigit(chars[i]) \/ chars[i] = "_"
    /\ \A i \in 1..(Len(chars) - 1) : ~(chars[i] = "_" /\ chars[i + 1] = "_")

RECURSIVE DigitsValue(_, _)
DigitsValue(chars, acc) ==
    IF chars = <<>> THEN acc
    ELSE IF Head(chars) = "_" THEN DigitsValue(Tail(chars), acc)
    ELSE DigitsValue(Tail(chars), 10 * acc + DigitVal(Head(chars)))

\* int(s) of a str: surrounding whitespace, an optional sign, decimal digits
IntOfStr(chars) ==
    LET u == Strip(chars)
        signed == u # <<>> /\ Head(u) \in {"+", "-"}
        body == IF signed THEN Tail(u) ELSE u
        sign == IF signed /\ Head(u) = "-" THEN -1 ELSE 1
    IN  IF IsDigitString(body) THEN Ok(sign * DigitsValue(body, 0)) ELSE Raised

\* int(x) of a finite float given in halves: truncation towards zero
TruncHalf(h) == IF h >= 0 THEN h \div 2 ELSE -((-h) \div 2)

PyInt(v) ==
    CASE v.t = "int" -> Ok(v.n)
      [] v.t = "bool" -> Ok(v.n)
      [] v.t = "float" -> Ok(TruncHalf(v.n))
      [] v.t = "str" -> IntOfStr(v.s)
      [] OTHER -> Raised

Max(a, b) == IF a >= b THEN a ELSE b

---------------------------------------------------------------------------
(* deep_iter and extract_counts *)

\* faulty variant of deep_iter: a dict is yielded after the dicts inside it
RECURSIVE deep_iter_PostOrder(_), deep_iter_each_PostOrder(_)
deep_iter_PostOrder(obj) ==
    IF IsDict(obj) THEN deep_iter_each_PostOrder(obj.items) \o <<obj>>
    ELSE IF IsList(obj) THEN deep_iter_each_PostOrder(obj.items)
    ELSE <<>>

deep_iter_each_PostOrder(elems) ==
    IF elems = <<>> THEN <<>>
    ELSE deep_iter_PostOrder(Head(elems)) \o deep_iter_each_PostOrder(Tail(elems))

\* deep_iter: every dict of the tree, a dict before the dicts inside its values,
\* the values of a dict and the elements of a list in their order
RECURSIVE deep_iter(_), deep_iter_each(_)
deep_iter(obj) ==
    IF IsDict(obj) THEN <<obj>> \o deep_iter_each(obj.items)
    ELSE IF IsList(obj) THEN deep_iter_each(obj.items)
    ELSE <<>>

deep_iter_each(elems) ==
    IF elems = <<>> THEN <<>>
    ELSE deep_iter(Head(elems)) \o deep_iter_each(Tail(elems))

\* faulty variant of unwrap: the wrapper is not removed
unwrap_NotUnwrapped(v) == v

\* unwrap: {"_value": x, ...} stands for x (one level only)
unwrap(v) == IF IsDict(v) /\ HasKey(v, "_value") THEN Lookup(v, "_value") ELSE v

\* faulty variant of Coerce: without "or 0"
Coerce_Strict(v) == PyInt(unwrap(v))

\* int(unwrap(x) or 0)
Coerce(v) == PyInt(Or(unwrap(v), IntV(0)))

\* what one "if <keys present>: try: ... return ... except Exception: pass" block
\* does: kind "nomatch" when the keys are not there, "ok" when it returns val,
\* "raise" when an int() inside the try raises
NoMatch == [kind |-> "nomatch", val |-> <<0, 0, 0>>]

Returns(p, f, s) == [kind |-> "ok", val |-> <<p, f, s>>]

Raises == [kind |-> "raise", val |-> <<0, 0, 0>>]

\* faulty variant of DirectPattern: one of the two keys is enough
DirectPattern_AnyKey(node, pk, fk, sk) ==
    IF HasKey(node, pk) \/ HasKey(node, fk)
    THEN LET p == Coerce(Get(node, pk, IntV(0)))
             f == Coerce(Get(node, fk, IntV(0)))
             s == Coerce(Get(node, sk, IntV(0)))
         IN  IF p.ok /\ f.ok /\ s.ok THEN Returns(p.val, f.val, s.val) ELSE Raises
    ELSE NoMatch

\* a block "if {pk, fk} <= keys: try: read pk, fk, sk (default 0 each)"
DirectPattern(node, pk, fk, sk) ==
    IF HasKey(node, pk) /\ HasKey(node, fk)
    THEN LET p == Coerce(Get(node, pk, IntV(0)))
             f == Coerce(Get(node, fk, IntV(0)))
             s == Coerce(Get(node, sk, IntV(0)))
         IN  IF p.ok /\ f.ok /\ s.ok THEN Returns(p.val, f.val, s.val) ELSE Raises
    ELSE NoMatch

\* Pattern 0: passedTests / failedTests / skippedTests
PatternSummary(node) == DirectPattern(node, "passedTests", "failedTests", "skippedTests")

\* faulty variant of PassedFromTotal: no clamp
PassedFromTotal_Unclamped(total, f, s) == total - f - s

\* passed of the totalTestCount block
PassedFromTotal(total, f, s) == Max(total - f - s, 0)

\* totalTestCount + failedTests (+ skippedTests)
PatternTotal(node) ==
    IF HasKey(node, "totalTestCount")
       /\ (HasKey(node, "failedTests") \/ HasKey(node, "testsFailedCount"))
    THEN LET total == Coerce(Get(node, "totalTestCount", IntV(0)))
             f == Coerce(Get(node, "failedTests", Get(node, "testsFailedCount", IntV(0))))
             s == Coerce(Get(node, "skippedTests", Get(node, "testsSkippedCount", IntV(0))))
         IN  IF total.ok /\ f.ok /\ s.ok
             THEN Returns(PassedFromTotal(total.val, f.val, s.val), f.val, s.val)
             ELSE Raises
    ELSE NoMatch

\* Pattern A: passed / failed / skipped
PatternA(node) == DirectPattern(node, "passed", "failed", "skipped")

\* Pattern B: tests*Count
PatternB(node) ==
    DirectPattern(node, "testsPassedCount", "testsFailedCount", "testsSkippedCount")

\* Alternate: *Count
PatternAlternate(node) == DirectPattern(node, "passedCount", "failedCount", "skippedCount")

\* the five blocks of the loop body, in the order of the source
Blocks(node) ==
    <<PatternSummary(node), PatternTotal(node), PatternA(node), PatternB(node),
      PatternAlternate(node)>>

\* faulty variant of Caught: the exception is not caught
Caught_Uncaught(r) == r

\* "except Exception: pass": a block that raises is left and the next one is tried
Caught(r) == IF r.kind = "raise" THEN NoMatch ELSE r

\* faulty variant of RunBlocks: a block that raises ends the pass over the mapping
RECURSIVE RunBlocks_LeaveMapping(_)
RunBlocks_LeaveMapping(blocks) ==
    IF blocks = <<>> THEN NoMatch
    ELSE IF Head(blocks).kind = "raise" THEN NoMatch
    ELSE IF Head(blocks).kind = "nomatch" THEN RunBlocks_LeaveMapping(Tail(blocks))
    ELSE Head(blocks)

\* one pass of the loop body: the first block that returns ends the function
RECURSIVE RunBlocks(_)
RunBlocks(blocks) ==
    IF blocks = <<>> THEN NoMatch
    ELSE LET r == Caught(Head(blocks))
         IN  IF r.kind = "nomatch" THEN RunBlocks(Tail(blocks)) ELSE r

MatchNode(node) == RunBlocks(Blocks(node))

\* the loop "for node in deep_iter(data)" and the final "return 0, 0, 0";
\* an exception that leaves the loop body leaves the function
RECURSIVE ScanNodes(_)
ScanNodes(nodes) ==
    IF nodes = <<>> THEN [raised |-> FALSE, val |-> <<0, 0, 0>>]
    ELSE LET r == MatchNode(Head(nodes))
         IN  IF r.kind = "ok" THEN [raised |-> FALSE, val |-> r.val]
             ELSE IF r.kind = "raise" THEN [raised |-> TRUE, val |-> <<0, 0, 0>>]
             ELSE ScanNodes(Tail(nodes))

extract_counts(doc) == ScanNodes(deep_iter(doc))

---------------------------------------------------------------------------
(* str(v), str.split and slicing, as _extract_details_from_summary uses them *)

RECURSIVE NatChars(_)
NatChars(i) ==
    IF i < 10 THEN <<Digits[i + 1]>>
    ELSE NatChars(i \div 10) \o <<Digits[(i % 10) + 1]>>

IntChars(i) == IF i < 0 THEN <<"-">> \o NatChars(-i) ELSE NatChars(i)

\* repr of a finite float given in halves: 5 is "2.5", -1 is "-0.5", 4 is "2.0"
FloatChars(h) ==
    LET a == IF h < 0 THEN -h ELSE h
    IN  (IF h < 0 THEN <<"-">> ELSE <<>>)
        \o NatChars(a \div 2) \o <<".">> \o (IF a % 2 = 1 THEN <<"5">> ELSE <<"0">>)

\* ", ".join(parts)
RECURSIVE JoinComma(_)
JoinComma(parts) ==
    IF parts = <<>> THEN <<>>
    ELSE IF Len(parts) = 1 THEN parts[1]
    ELSE parts[1] \o <<",", " ">> \o JoinComma(Tail(parts))

\* repr(v); a str is quoted (the strings of the model hold no quote and no
\* backslash), a dict key is one token of the text
RECURSIVE PyRepr(_)
PyRepr(v) ==
    CASE v.t = "null" -> <<"N", "o", "n", "e">>
      [] v.t = "bool" -> IF v.n = 1 THEN <<"T", "r", "u", "e">>
                                    ELSE <<"F", "a", "l", "s", "e">>
      [] v.t = "int" -> IntChars(v.n)
      [] v.t = "float" -> FloatChars(v.n)
      [] v.t = "nan" -> <<"n", "a", "n">>
      [] v.t = "str" -> <<"'">> \o v.s \o <<"'">>
      [] v.t = "list" ->
            <<"[">> \o JoinComma([i \in 1..Len(v.items) |-> PyRepr(v.items[i])]) \o <<"]">>
      [] v.t = "dict" ->
            <<"{">>
            \o JoinComma([i \in 1..Len(v.keys) |->
                            <<"'", v.keys[i], "'", ":", " ">> \o PyRepr(v.items[i])])
            \o <<"}">>

\* str(v)
PyStr(v) == IF IsStr(v) THEN v.s ELSE PyRepr(v)

\* sep in chars, for a one-character sep
Contains(chars, sep) == \E i \in 1..Len(chars) : chars[i] = sep

\* chars.split(sep), for a one-character sep: the segments, empty ones included
RECURSIVE SplitFrom(_, _, _)
SplitFrom(chars, sep, cur) ==
    IF chars = <<>> THEN <<cur>>
    ELSE IF Head(chars) = sep THEN <<cur>> \o SplitFrom(Tail(chars), sep, <<>>)
    ELSE SplitFrom(Tail(chars), sep, Append(cur, Head(chars)))

Split(chars, sep) == SplitFrom(chars, sep, <<>>)

Min(a, b) == IF a <= b THEN a ELSE b

\* the bound of the failure excerpt: failure_text[:100]
ExcerptLen == 100

\* seq[:k]
Prefix(seq, k) == SubSeq(seq, 1, Min(Len(seq), k))

\* v[:ExcerptLen]: a str and a list can be sliced, any other value raises TypeError
\* (a dict raises TypeError or KeyError)
Sliceable(v) == v.t \in {"str", "list"}

Slice(v) ==
    IF IsStr(v) THEN StrV(Prefix(v.s, ExcerptLen)) ELSE ListV(Prefix(v.items, ExcerptLen))

---------------------------------------------------------------------------
(* _extract_details_from_summary *)

EmptyStr == StrV(<<>>)

\* suite: the second-to-last segment of str(test_id) when test_id is truthy and
\* holds a "/", else "" ; split always yields two segments or more there
SuiteOf(test_id, target) ==
    IF Truthy(test_id) /\ Contains(PyStr(test_id), "/")
    THEN LET parts == Split(PyStr(test_id), "/")
         IN  IF Len(parts) >= 2 THEN StrV(parts[Len(parts) - 1]) ELSE target
    ELSE EmptyStr

\* faulty variant of FailureExcerpt: the text is not truncated
FailureExcerpt_Untruncated(failure_text) ==
    IF Truthy(failure_text) THEN failure_text ELSE EmptyStr

\* "failure": failure_text[:100] if failure_text else ""
FailureExcerpt(failure_text) == IF Truthy(failure_text) THEN Slice(failure_text) ELSE EmptyStr

\* whether building the record of one failure raises
ExcerptRaises(failure_text) == Truthy(failure_text) /\ ~Sliceable(failure_text)

\* the body of the loop for one element of testFailures:
\* kind "skip" (nothing appended), "emit" (rec appended) or "raise"
DetailOf(failure) ==
    IF ~IsDict(failure) THEN [kind |-> "skip", rec |-> <<>>]
    ELSE LET test_name == Or(Or(Get(failure, "testName", NullV),
                                Get(failure, "testIdentifierString", NullV)), EmptyStr)
             test_id == Or(Or(Get(failure, "testIdentifierString", NullV),
                              Get(failure, "testIdentifierURL", NullV)), EmptyStr)
             target == Or(Get(failure, "targetName", NullV), EmptyStr)
             failure_text == Or(Get(failure, "failureText", NullV), EmptyStr)
         IN  IF ~Truthy(test_name) THEN [kind |-> "skip", rec |-> <<>>]
             ELSE IF ExcerptRaises(failure_text) THEN [kind |-> "raise", rec |-> <<>>]
             ELSE [kind |-> "emit",
                   rec |-> <<[name |-> test_name,
                              status |-> "Failed",
                              suite |-> Or(SuiteOf(test_id, target), target),
                              failure |-> FailureExcerpt(failure_text),
                              testIdentifierString |-> Or(test_id, EmptyStr)]>>]

\* the loop over data["testFailures"]
RECURSIVE DetailsLoop(_, _)
DetailsLoop(failures, acc) ==
    IF failures = <<>> THEN [raised |-> FALSE, recs |-> acc]
    ELSE LET r == DetailOf(Head(failures))
         IN  IF r.kind = "raise" THEN [raised |-> TRUE, recs |-> <<>>]
             ELSE DetailsLoop(Tail(failures), acc \o r.rec)

\* what the call yields: raised, or the list of records; the empty list stands
\* for the None the function returns when it found nothing
extract_details_from_summary(doc) ==
    IF ~IsDict(doc) THEN [raised |-> FALSE, recs |-> <<>>]
    ELSE IF HasKey(doc, "testFailures") /\ IsList(Lookup(doc, "testFailures"))
    THEN DetailsLoop(Lookup(doc, "testFailures").items, <<>>)
    ELSE [raised |-> FALSE, recs |-> <<>>]

---------------------------------------------------------------------------
(* The documents the normaliser is run on.  They are the values json.loads *)
(* can return: dict keys are unique, numbers are ints or floats.           *)

\* the largest count of the generated count-bearing mappings (the smallest is -1)
MaxCount == 2

\* how far the longest failure text exceeds ExcerptLen
OverLen == 3

Counts == (-1)..MaxCount

\* {"_value": v}
Wrap(v) == DictV(<<"_value">>, <<v>>)

\* the key names of the count-bearing shapes: 1 passedTests/failedTests,
\* 2 totalTestCount/failedTests, 3 passed/failed, 4 tests*Count, 5 *Count,
\* 6 totalTestCount/testsFailedCount
PassKey ==
    <<"passedTests", "totalTestCount", "passed", "testsPassedCount", "passedCount",
      "totalTestCount">>

FailKey ==
    <<"failedTests", "failedTests", "failed", "testsFailedCount", "failedCount",
      "testsFailedCount">>

SkipKey ==
    <<"skippedTests", "skippedTests", "skipped", "testsSkippedCount", "skippedCount",
      "testsSkippedCount">>

Shapes == 1..6

Leaf(k, pv, fv) == DictV(<<PassKey[k], FailKey[k]>>, <<pv, fv>>)

Leaf3(k, pv, fv, sv) == DictV(<<"title", SkipKey[k], FailKey[k], PassKey[k]>>,
                              <<StrV(<<"r">>), sv, fv, pv>>)

\* mappings whose count fields are integers, bare or wrapped
IntDocs ==
    {Leaf(k, IntV(p), IntV(f)) : k \in Shapes, p \in Counts, f \in Counts}
    \cup {Leaf(k, Wrap(IntV(p)), IntV(f)) : k \in Shapes, p \in Counts, f \in Counts}
    \cup {Leaf3(k, IntV(p), IntV(f), IntV(s)) :
            k \in Shapes, p \in Counts, f \in Counts, s \in Counts}
    \cup {Leaf3(k, Wrap(IntV(p)), Wrap(IntV(f)), Wrap(IntV(s))) :
            k \in Shapes, p \in Counts, f \in Counts, s \in Counts}

\* field values that are not integers
OddVals ==
    {NullV, BoolV(TRUE), BoolV(FALSE), NanV, FloatV(0), FloatV(1), FloatV(5), FloatV(-3),
     StrV(<<>>), StrV(<<"7">>), StrV(<<" ", "-", "2", " ">>), StrV(<<"1", "_", "0">>), StrV(<<"a", "b">>), StrV(<<"2", ".", "5">>),
     ListV(<<>>), ListV(<<IntV(1)>>), EmptyDict, DictV(<<"x">>, <<IntV(1)>>),
     Wrap(NullV), Wrap(StrV(<<"a", "b">>)), Wrap(StrV(<<"4">>)), Wrap(Wrap(IntV(3))),
     DictV(<<"x", "_value">>, <<IntV(1), IntV(2)>>)}

\* mappings with one field that is not an integer
OddDocs ==
    {Leaf(k, v, IntV(1)) : k \in Shapes, v \in OddVals}
    \cup {Leaf(k, IntV(2), v) : k \in Shapes, v \in OddVals}
    \cup {Leaf3(k, IntV(2), IntV(1), v) : k \in Shapes, v \in OddVals}

\* the scenarios of the specification
ScenarioA ==
    DictV(<<"passedTests", "failedTests", "skippedTests">>, <<IntV(10), IntV(2), IntV(1)>>)

ScenarioB == DictV(<<"totalTestCount", "failedTests">>, <<IntV(100), IntV(5)>>)

\* a mapping on which the first block raises and the second returns
FallThrough ==
    DictV(<<"passedTests", "failedTests", "totalTestCount">>,
          <<StrV(<<"a", "b">>), IntV(1), IntV(10)>>)

\* mappings that nested documents are built from
RepLeaves ==
    {Leaf(1, IntV(3), IntV(1)),
     Leaf3(3, IntV(2), IntV(0), IntV(1)),
     Leaf(5, Wrap(IntV(1)), IntV(2)),
     Leaf(2, IntV(5), IntV(2)),
     Leaf(6, IntV(1), IntV(2)),
     Leaf(1, StrV(<<"a", "b">>), IntV(1)),
     Leaf(4, IntV(1), ListV(<<IntV(1)>>)),
     DictV(<<"name">>, <<StrV(<<"x">>)>>),
     DictV(<<"passedTests">>, <<IntV(4)>>),
     FallThrough,
     DictV(<<"passedCount", "failedCount", "passed", "failed">>,
           <<IntV(3), IntV(4), IntV(1), IntV(2)>>),
     DictV(<<"totalTestCount", "passedTests", "failedTests">>,
           <<IntV(9), IntV(1), IntV(2)>>)}

\* a with one more key, "child", holding b: after a's own keys, or before them
WithChild(a, b) == DictV(a.keys \o <<"child">>, a.items \o <<b>>)

WithChildFirst(a, b) == DictV(<<"child">> \o a.keys, <<b>> \o a.items)

NestedDocs ==
    {ListV(<<a, b>>) : a \in RepLeaves, b \in RepLeaves}
    \cup {DictV(<<"x", "y">>, <<a, b>>) : a \in RepLeaves, b \in RepLeaves}
    \cup {DictV(<<"x", "y">>, <<ListV(<<IntV(0), DictV(<<"z">>, <<a>>)>>), b>>) :
            a \in RepLeaves, b \in RepLeaves}
    \cup {ListV(<<ListV(<<a>>), b>>) : a \in RepLeaves, b \in RepLeaves}
    \cup {WithChild(a, b) : a \in RepLeaves, b \in RepLeaves}
    \cup {WithChildFirst(a, b) : a \in RepLeaves, b \in RepLeaves}

\* documents without any mapping, and a wrapped value that holds count keys itself
PlainDocs ==
    {EmptyDict, NullV, IntV(5), BoolV(TRUE), StrV(<<"a", "b">>), ListV(<<>>),
     ListV(<<IntV(1), StrV(<<"p", "a", "s", "s", "e", "d", "T", "e", "s", "t", "s">>)>>), ScenarioA, ScenarioB,
     DictV(<<"passedTests", "failedTests">>,
           <<DictV(<<"_value", "passed", "failed">>, <<StrV(<<"x">>), IntV(1), IntV(2)>>),
             IntV(1)>>)}

CountDocs == IntDocs \cup OddDocs \cup NestedDocs \cup PlainDocs

---------------------------------------------------------------------------
(* The documents with a detail section *)

\* marks a key that the record does not have
Absent == [t |-> "absent", n |-> 0, s |-> <<>>, keys |-> <<>>, items |-> <<>>]

\* the dict of the keys ks whose value is not Absent
RECURSIVE DictOf(_, _)
DictOf(ks, vs) ==
    IF ks = <<>> THEN EmptyDict
    ELSE LET rest == DictOf(Tail(ks), Tail(vs))
         IN  IF Head(vs) = Absent THEN rest
             ELSE DictV(<<Head(ks)>> \o rest.keys, <<Head(vs)>> \o rest.items)

\* a text of k characters, no two neighbours alike
TextOfLen(k) == StrV([i \in 1..k |-> Digits[(i % 10) + 1]])

FailureRecord(name, id, url, target, text) ==
    DictOf(<<"testName", "testIdentifierString", "testIdentifierURL", "targetName",
             "failureText">>,
           <<name, id, url, target, text>>)

TestFoo == StrV(<<"t", "e", "s", "t", "F", "o", "o">>)

SuiteAFoo == StrV(<<"S", "u", "i", "t", "e", "A", "/", "t", "e", "s", "t", "F", "o", "o">>)

ExpectedTrue == StrV(<<"e", "x", "p", "e", "c", "t", "e", "d", " ", "t", "r", "u", "e">>)

Tgt == StrV(<<"T", "g", "t">>)

FooURL == StrV(<<"t", "e", "s", "t", ":", "/", "/", "h", "/", "T", "/", "S", "u", "i", "t", "e", "U", "/", "t", "e", "s", "t", "F", "o", "o">>)

\* text-valued fields, present or not
NameTexts == {Absent, EmptyStr, TestFoo}

IdTexts == {Absent, EmptyStr, SuiteAFoo, TestFoo, StrV(<<"/", "t", "e", "s", "t", "F", "o", "o">>), StrV(<<"T", "/", "S", "u", "i", "t", "e", "B", "/", "t", "e", "s", "t", "B", "a", "r", "/">>)}

UrlTexts == {Absent, FooURL}

TargetTexts == {Absent, Tgt}

FailureTexts ==
    {Absent, EmptyStr, ExpectedTrue, TextOfLen(ExcerptLen), TextOfLen(ExcerptLen + 1),
     TextOfLen(ExcerptLen + OverLen)}

\* fields of other types
OddNames == {NullV, IntV(7), IntV(0), ListV(<<TestFoo>>)}

OddIds == {NullV, IntV(3), ListV(<<SuiteAFoo>>), DictV(<<"a">>, <<SuiteAFoo>>), FloatV(5)}

OddTargets == {NullV, IntV(9)}

OddFailureTexts ==
    {NullV, IntV(0), IntV(5), BoolV(TRUE), BoolV(FALSE), FloatV(3), NanV, ListV(<<>>),
     ListV(<<IntV(1), IntV(2)>>), EmptyDict, DictV(<<"a">>, <<IntV(1)>>)}

TextRecords ==
    {FailureRecord(nm, id, url, tg, tx) :
        nm \in NameTexts, id \in IdTexts, url \in UrlTexts, tg \in TargetTexts,
        tx \in FailureTexts}

OddRecords ==
    {FailureRecord(nm, SuiteAFoo, Absent, Tgt, ExpectedTrue) : nm \in OddNames}
    \cup {FailureRecord(TestFoo, id, Absent, tg, ExpectedTrue) :
            id \in OddIds, tg \in TargetTexts \cup OddTargets}
    \cup {FailureRecord(nm, SuiteAFoo, Absent, Tgt, tx) :
            nm \in {Absent, TestFoo}, tx \in OddFailureTexts}

\* records that lists of several failures are built from
RepRecords ==
    {FailureRecord(TestFoo, SuiteAFoo, Absent, Absent, ExpectedTrue),
     FailureRecord(StrV(<<"t", "e", "s", "t", "B", "a", "r">>), Absent, FooURL, Tgt, TextOfLen(ExcerptLen + OverLen)),
     FailureRecord(Absent, SuiteAFoo, Absent, Tgt, Absent),
     FailureRecord(Absent, Absent, FooURL, Tgt, ExpectedTrue),
     FailureRecord(TestFoo, Absent, Absent, Tgt, IntV(5)),
     IntV(1),
     StrV(<<"t", "e", "s", "t", "F", "o", "o">>),
     ListV(<<FailureRecord(TestFoo, SuiteAFoo, Absent, Absent, ExpectedTrue)>>)}

WithFailures(v) == DictV(<<"testFailures">>, <<v>>)

\* Scenario E of the specification, and the same with counts beside the failures
ScenarioE ==
    WithFailures(ListV(<<FailureRecord(TestFoo, SuiteAFoo, Absent, Absent, ExpectedTrue)>>))

SummaryWithFailures ==
    DictV(<<"passedTests", "failedTests", "testFailures">>,
          <<IntV(10), IntV(1),
            ListV(<<FailureRecord(TestFoo, SuiteAFoo, Absent, Absent, ExpectedTrue)>>)>>)

DetailDocs ==
    {WithFailures(ListV(<<r>>)) : r \in TextRecords \cup OddRecords}
    \cup {WithFailures(ListV(<<a, b>>)) : a \in RepRecords, b \in RepRecords}
    \cup {WithFailures(ListV(<<a, FailureRecord(Absent, Absent, FooURL, Tgt, ExpectedTrue), b>>)) :
            a \in RepRecords, b \in RepRecords}
    \cup {WithFailures(v) :
            v \in {NullV, IntV(1), TestFoo, ListV(<<>>), EmptyDict,
                   FailureRecord(TestFoo, SuiteAFoo, Absent, Absent, ExpectedTrue)}}
    \cup {ListV(<<ScenarioE>>), DictV(<<"x">>, <<ScenarioE>>), ScenarioE,
          SummaryWithFailures}

Docs == CountDocs \cup DetailDocs

---------------------------------------------------------------------------
(* _export_attachments: the index built from manifest.json.  screenshot_map *)
(* is None or a dict from test identifier to file names; the dict is kept  *)
(* as the sequence of its items, in insertion order.                       *)

NoneIndex == [none |-> TRUE, entries |-> <<>>]

IndexOf(entries) == [none |-> FALSE, entries |-> entries]

\* bool(screenshot_map)
TruthyIndex(map) == ~map.none /\ map.entries # <<>>

\* by_id[key] = files: the value of a key that is present is replaced in place
Put(entries, key, files) ==
    IF \E i \in 1..Len(entries) : entries[i].key = key
    THEN [i \in 1..Len(entries) |->
            IF entries[i].key = key THEN [key |-> key, files |-> files] ELSE entries[i]]
    ELSE Append(entries, [key |-> key, files |-> files])

\* "for x in v": a list yields its elements, a str its characters, a dict its
\* keys; any other value raises TypeError
Iterable(v) == v.t \in {"list", "str", "dict"}

Elements(v) ==
    CASE v.t = "list" -> v.items
      [] v.t = "str" -> [i \in 1..Len(v.s) |-> StrV(<<v.s[i]>>)]
      [] v.t = "dict" -> [i \in 1..Len(v.keys) |-> StrV(<<v.keys[i]>>)]
      [] OTHER -> <<>>

\* a list or a dict cannot be the key of a dict: by_id[key] raises TypeError
Hashable(v) == v.t \notin {"list", "dict"}

\* the exportedFileName of each attachment that is a dict and has a truthy one
RECURSIVE FileNames(_)
FileNames(atts) ==
    IF atts = <<>> THEN <<>>
    ELSE (IF IsDict(Head(atts)) /\ Truthy(Get(Head(atts), "exportedFileName", NullV))
          THEN <<Lookup(Head(atts), "exportedFileName")>>
          ELSE <<>>)
         \o FileNames(Tail(atts))

\* faulty variant of UrlAlias: the URL form is never a key of its own
UrlAlias_Never(url, test_id) == FALSE

\* "if url and url != test_id": the entry is also filed under its URL form
UrlAlias(url, test_id) == Truthy(url) /\ url # test_id

\* the body of "for entry in details_list": by_id after the entry, or raised
IndexEntry(by_id, entry) ==
    IF ~IsDict(entry) THEN [raised |-> FALSE, entries |-> by_id]
    ELSE LET test_id == Or(Or(Get(entry, "testIdentifier", NullV),
                              Get(entry, "testIdentifierURL", NullV)), EmptyStr)
             attachments == Or(Get(entry, "attachments", NullV), ListV(<<>>))
             url == Get(entry, "testIdentifierURL", NullV)
         IN  IF ~Truthy(test_id) THEN [raised |-> FALSE, entries |-> by_id]
             ELSE IF ~Iterable(attachments) THEN [raised |-> TRUE, entries |-> <<>>]
             ELSE LET filenames == FileNames(Elements(attachments))
                  IN  IF filenames = <<>> THEN [raised |-> FALSE, entries |-> by_id]
                      ELSE IF ~Hashable(test_id) THEN [raised |-> TRUE, entries |-> <<>>]
                      ELSE IF ~UrlAlias(url, test_id)
                      THEN [raised |-> FALSE, entries |-> Put(by_id, test_id, filenames)]
                      ELSE IF ~Hashable(url) THEN [raised |-> TRUE, entries |-> <<>>]
                      ELSE [raised |-> FALSE,
                            entries |-> Put(Put(by_id, test_id, filenames), url, filenames)]

RECURSIVE IndexLoop(_, _)
IndexLoop(entries, by_id) ==
    IF entries = <<>> THEN [raised |-> FALSE, entries |-> by_id]
    ELSE LET r == IndexEntry(by_id, Head(entries))
         IN  IF r.raised THEN r ELSE IndexLoop(Tail(entries), r.entries)

\* details_list: the manifest itself when it is a list, the first truthy of the
\* three list-holding keys when it is a dict, else []
DetailsList(manifest) ==
    IF IsList(manifest) THEN manifest
    ELSE IF IsDict(manifest)
    THEN Or(Or(Or(Get(manifest, "testAttachmentDetails", NullV),
                  Get(manifest, "testAttachmentDetailsList", NullV)),
               Get(manifest, "attachments", NullV)),
            ListV(<<>>))
    ELSE ListV(<<>>)

\* the lines after json.loads of the manifest: raised, or "by_id if by_id else None"
ManifestIndex(manifest) ==
    LET details_list == DetailsList(manifest)
    IN  IF ~Iterable(details_list) THEN [raised |-> TRUE, map |-> NoneIndex]
        ELSE LET r == IndexLoop(Elements(details_list), <<>>)
             IN  IF r.raised THEN [raised |-> TRUE, map |-> NoneIndex]
                 ELSE [raised |-> FALSE,
                       map |-> IF r.entries # <<>> THEN IndexOf(r.entries) ELSE NoneIndex]

\* screenshot_dir_name, for the output path report.html
ScreenshotDirName ==
    StrV(<<"r", "e", "p", "o", "r", "t", "_", "s", "c", "r", "e", "e", "n", "s", "h", "o", "t", "s">>)

\* what the export step meets: the directory cannot be made, the subprocess
\* times out or raises, exits non-zero, leaves no manifest, leaves one that
\* cannot be read as JSON, or leaves the manifest given
ExportCase(kind, manifest) == [kind |-> kind, manifest |-> manifest]

\* _export_attachments: raised, or (screenshot_dir_relative, screenshot_map)
export_attachments(case) ==
    CASE case.kind = "mkdir raises" ->
            [raised |-> TRUE, dir |-> NullV, map |-> NoneIndex]
      [] case.kind \in {"timeout", "process error", "non-zero exit"} ->
            [raised |-> FALSE, dir |-> NullV, map |-> NoneIndex]
      [] case.kind \in {"no manifest", "unparsable manifest"} ->
            [raised |-> FALSE, dir |-> ScreenshotDirName, map |-> IndexOf(<<>>)]
      [] case.kind = "manifest" ->
            LET r == ManifestIndex(case.manifest)
            IN  IF r.raised THEN [raised |-> TRUE, dir |-> NullV, map |-> NoneIndex]
                ELSE [raised |-> FALSE, dir |-> ScreenshotDirName, map |-> r.map]

---------------------------------------------------------------------------
(* build_html.  The document is the sequence of its pieces: a piece of the *)
(* template is one "markup" element, an interpolated value contributes one *)
(* "text" element for each of its characters.                              *)

Markup(s) == [k |-> "markup", c |-> s]

Text(chars) == [i \in 1..Len(chars) |-> [k |-> "text", c |-> chars[i]]]

\* a in b, for two strs
IsSubstring(a, b) == \E i \in 0..(Len(b) - Len(a)) : SubSeq(b, i + 1, i + Len(a)) = a

\* b.endswith(a)
EndsWith(b, a) == Len(a) <= Len(b) /\ SubSeq(b, Len(b) - Len(a) + 1, Len(b)) = a

\* chars.split("/")[-1]
LastSegment(chars) == Split(chars, "/")[Len(Split(chars, "/"))]

\* faulty variant of KeyMatches: an empty identifier matches no key
KeyMatches_NonEmptyId(test_id, key) ==
    /\ test_id # <<>>
    /\ \/ IsSubstring(test_id, key)
       \/ EndsWith(key, test_id)
       \/ LastSegment(key) = LastSegment(test_id)

\* the condition of "for key in screenshot_map"; identifiers and keys are strs
KeyMatches(test_id, key) ==
    \/ IsSubstring(test_id, key)
    \/ EndsWith(key, test_id)
    \/ (test_id # <<>> /\ LastSegment(key) = LastSegment(test_id))

\* faulty variant of FindScreenshots: the key equal to the identifier is not looked up first
FindScreenshots_NoLookup(test_id, entries) ==
    LET hits == {i \in 1..Len(entries) : KeyMatches(test_id.s, entries[i].key.s)}
    IN  IF hits = {} THEN <<>>
        ELSE entries[CHOOSE i \in hits : \A j \in hits : i <= j].files

\* imgs of a row: screenshot_map.get(test_id) when truthy, else the value of the
\* first key, in the order of the dict, that matches; <<>> when there is none
FindScreenshots(test_id, entries) ==
    LET exact == {i \in 1..Len(entries) : entries[i].key = test_id}
        imgs == IF exact = {} THEN <<>> ELSE entries[CHOOSE i \in exact : TRUE].files
        hits == {i \in 1..Len(entries) : KeyMatches(test_id.s, entries[i].key.s)}
    IN  IF imgs # <<>> THEN imgs
        ELSE IF hits = {} THEN <<>>
        ELSE entries[CHOOSE i \in hits : \A j \in hits : i <= j].files

\* faulty variant of Total: the skipped tests are left out
Total_WithoutSkipped(passed, failed, skipped) == passed + failed

\* total = passed + failed + skipped
Total(passed, failed, skipped) == passed + failed + skipped

\* the head of the document and the summary card
SummaryCard(passed, failed, skipped, source_name, title) ==
    <<Markup("<!doctype html><html><head><title>")>>
    \o Text(title)
    \o <<Markup("</title><style/></head><body><div class=card><h1>")>>
    \o Text(title)
    \o <<Markup("</h1><div class=meta/><div class=grid>"),
         Markup("<div class=kpi><div class=label>Total</div><div class=value>")>>
    \o Text(IntChars(Total(passed, failed, skipped)))
    \o <<Markup("</div></div>"),
         Markup("<div class=kpi><div class=label>Passed</div><div class=value>")>>
    \o Text(IntChars(passed))
    \o <<Markup("</div></div>"),
         Markup("<div class=kpi><div class=label>Failed</div><div class=value>")>>
    \o Text(IntChars(failed))
    \o <<Markup("</div></div>"),
         Markup("<div class=kpi><div class=label>Skipped</div><div class=value>")>>
    \o Text(IntChars(skipped))
    \o <<Markup("</div></div>"),
         Markup("</div><canvas id=pie/><div class=small>Source: ")>>
    \o Text(source_name)
    \o <<Markup("</div></div>")>>

\* the characters of the status of a record
StatusChars(status) ==
    IF status = "Failed" THEN <<"F", "a", "i", "l", "e", "d">>
    ELSE IF status = "Passed" THEN <<"P", "a", "s", "s", "e", "d">>
    ELSE <<>>

StatusColor(status) ==
    IF status = "Failed" THEN "#ef4444" ELSE IF status = "Passed" THEN "#22c55e" ELSE "#f59e0b"

\* the head of the details card and of its table
TableHead(has_screenshots, has_failures) ==
    <<Markup("<div class=card><h2>Test details</h2><p class=meta>"),
      Markup(IF has_screenshots THEN "Screenshots included below when available."
             ELSE "Best-effort list of tests discovered in the xcresult summary."),
      Markup("</p><table><thead><tr><th>Test</th><th>Suite</th><th>Status</th>")>>
    \o (IF has_failures THEN <<Markup("<th>Failure</th>")>> ELSE <<>>)
    \o <<Markup("</tr></thead><tbody>")>>

\* the row of one record: name, suite, status and, if the table has the column, failure
TestRow(item, has_failures) ==
    <<Markup("<tr>"), Markup("<td>")>>
    \o Text(PyStr(item.name))
    \o <<Markup("</td>"), Markup("<td>")>>
    \o Text(PyStr(item.suite))
    \o <<Markup("</td>"), Markup("<td color:"), Markup(StatusColor(item.status)), Markup(">")>>
    \o Text(StatusChars(item.status))
    \o <<Markup("</td>")>>
    \o (IF has_failures
        THEN <<Markup("<td font-size:12px>")>> \o Text(PyStr(item.failure)) \o <<Markup("</td>")>>
        ELSE <<>>)
    \o <<Markup("</tr>")>>

\* imgs[:10]: the number of images a row shows
MaxImgs == 10

\* one <img> of the screenshot row
Img(fn, dir) ==
    <<Markup("<img src=")>>
    \o Text(PyStr(dir) \o <<"/">> \o PyStr(fn))
    \o <<Markup(" alt=")>>
    \o Text(PyStr(fn))
    \o <<Markup(" />")>>

RECURSIVE Imgs(_, _)
Imgs(fns, dir) == IF fns = <<>> THEN <<>> ELSE Img(Head(fns), dir) \o Imgs(Tail(fns), dir)

\* the screenshot row under a test row
ScreenshotRow(imgs, dir, has_failures) ==
    <<Markup("<tr>"), Markup("<td colspan="), Markup(IF has_failures THEN "4" ELSE "3"),
      Markup("><div>Screenshots</div><div>")>>
    \o Imgs(Prefix(imgs, MaxImgs), dir)
    \o (IF Len(imgs) > MaxImgs
        THEN <<Markup("<span>+")>> \o Text(IntChars(Len(imgs) - MaxImgs))
             \o <<Markup(" more</span>")>>
        ELSE <<>>)
    \o <<Markup("</div>"), Markup("</td>"), Markup("</tr>")>>

\* "for item in details": the row of each record and its screenshot row
RECURSIVE TableRows(_, _, _, _, _)
TableRows(items, has_screenshots, has_failures, dir, map) ==
    IF items = <<>> THEN <<>>
    ELSE LET item == Head(items)
             imgs == IF has_screenshots /\ TruthyIndex(map)
                     THEN FindScreenshots(item.testIdentifierString, map.entries)
                     ELSE <<>>
         IN  TestRow(item, has_failures)
             \o (IF imgs # <<>> THEN ScreenshotRow(imgs, dir, has_failures) ELSE <<>>)
             \o TableRows(Tail(items), has_screenshots, has_failures, dir, map)

\* "if details:" the details card
DetailsCard(items, dir, map) ==
    IF items = <<>> THEN <<>>
    ELSE LET has_screenshots == Truthy(dir) /\ TruthyIndex(map)
             has_failures == \E i \in 1..Len(items) : Truthy(items[i].failure)
         IN  TableHead(has_screenshots, has_failures)
             \o TableRows(items, has_screenshots, has_failures, dir, map)
             \o <<Markup("</tbody></table></div>")>>

\* the Chart.js script with the three numbers, and the end of the document
ChartScript(passed, failed, skipped) ==
    <<Markup("<script src=chart.js></script><script>new Chart(ctx, {type: 'pie', data: {labels: ['Passed', 'Failed', 'Skipped'], datasets: [{"),
      Markup("data: [")>>
    \o Text(IntChars(passed))
    \o <<Markup(", ")>>
    \o Text(IntChars(failed))
    \o <<Markup(", ")>>
    \o Text(IntChars(skipped))
    \o <<Markup("],"), Markup("}]}});</script></body></html>")>>

\* details is the list of records (empty for None), screenshot_dir_relative is
\* None or a str, screenshot_map is None or an index
build_html(passed, failed, skipped, source_name, title, items, screenshot_dir_relative, screenshot_map) ==
    SummaryCard(passed, failed, skipped, source_name, title)
    \o DetailsCard(items, screenshot_dir_relative, screenshot_map)
    \o ChartScript(passed, failed, skipped)

---------------------------------------------------------------------------
(* The normaliser called on its own: extract_counts, then                  *)
(* _extract_details_from_summary, on one document.                         *)

NoCounts == [raised |-> FALSE, val |-> <<>>]

NoDetails == [raised |-> FALSE, recs |-> <<>>]

\* the text of a stream of the tool: kind "None" (no text), "empty", "blank"
\* (whitespace only), "garbage" (text that is not JSON) or "json" (the JSON text of doc)
NoneText == [kind |-> "None", doc |-> NullV]

EmptyText == [kind |-> "empty", doc |-> NullV]

BlankText == [kind |-> "blank", doc |-> NullV]

GarbageText == [kind |-> "garbage", doc |-> NullV]

JsonText(doc) == [kind |-> "json", doc |-> doc]

NoReturn == [done |-> FALSE, stdout |-> NoneText, stderr |-> "", cmd |-> ""]

IdleTool == [i |-> 1, ran |-> <<>>, last_stderr |-> "", last_cmd |-> "", ret |-> NoReturn]

\* include_details and include_screenshots of the call, and the --include-screenshots
\* of the command line the call comes from
IdleCfg ==
    [include_details |-> FALSE, include_screenshots |-> FALSE,
     requested_screenshots |-> FALSE]

NoHtml == [written |-> FALSE, text |-> <<>>]

\* the files of the run: the JSON sidecar and whether its write raised, the HTML
\* artifact, the screenshot directory, and the order in which they were written
IdleFs ==
    [json |-> NoneText, json_error |-> FALSE, html |-> NoHtml, screenshot_dir |-> FALSE,
     order |-> <<>>]

\* screenshot_dir_relative and screenshot_map, and what the export step met
NoScreenshots == [dir |-> NullV, map |-> NoneIndex, export |-> ExportCase("none", NullV)]

IdleOutcome == [kind |-> "none", cmd |-> "", err |-> "", val |-> <<>>]

\* the desktop front end before any action, and the web front end before any request
IdleGui == [files |-> {}, output_path |-> <<>>, runs |-> 0, last |-> <<>>]

IdleWeb == [paths |-> {}, req |-> <<>>]

\* run_cli has not returned
IdleCli == [exited |-> FALSE, pdf_output_path |-> FALSE, pdf |-> "none", code |-> 0]

InitNormalize ==
    /\ mode = "normalize"
    /\ data \in Docs
    /\ pc = "ready"
    /\ counts = NoCounts
    /\ details = NoDetails
    /\ tool = IdleTool
    /\ cfg = IdleCfg
    /\ fs = IdleFs
    /\ screenshots = NoScreenshots
    /\ outcome = IdleOutcome
    /\ cli = IdleCli
    /\ gui = IdleGui
    /\ web = IdleWeb

CallExtractCounts ==
    /\ mode = "normalize"
    /\ pc = "ready"
    /\ counts' = extract_counts(data)
    /\ pc' = "counted"
    /\ UNCHANGED <<mode, cli, gui, web, data, details, tool, cfg, fs, outcome, screenshots>>

CallExtractDetails ==
    /\ mode = "normalize"
    /\ pc = "counted"
    /\ details' = extract_details_from_summary(data)
    /\ pc' = "detailed"
    /\ UNCHANGED <<mode, cli, gui, web, data, counts, tool, cfg, fs, outcome, screenshots>>

NextNormalize == CallExtractCounts \/ CallExtractDetails

SpecNormalize == InitNormalize /\ [][NextNormalize]_vars

---------------------------------------------------------------------------
(* run_xcresulttool: the loop over the command variants.  One step is one  *)
(* subprocess.run; what the tool answers is the environment's choice.      *)

\* candidates, in the order of the list
Candidates == <<"get test-results summary", "get --legacy", "get --format json">>

\* the documents the tool prints in the pipeline
PipelineDocs ==
    {ScenarioA, ScenarioB, EmptyDict, ScenarioE, SummaryWithFailures, ListV(<<IntV(1)>>),
     WithFailures(ListV(<<FailureRecord(TestFoo, Absent, Absent, Tgt, IntV(5))>>))}

\* the stderr texts of candidate i: empty, whitespace, or a message
ErrText(i) == <<"error 1", "error 2", "error 3">>[i]

CouldNotExecute == "Could not execute xcrun"

\* text.strip() is empty
IsBlank(text) == text.kind \in {"None", "empty", "blank"}

IsBlankErr(err) == err \in {"", " "}

StripErr(err) == IF err = " " THEN "" ELSE err

\* what subprocess.run of candidate i can do: raise FileNotFoundError, raise
\* another OSError (PermissionError), or return an exit status with the two
\* captured streams
RunResults(i) ==
    {[kind |-> "notfound", rc |-> 0, stdout |-> NoneText, stderr |-> ""],
     [kind |-> "oserror", rc |-> 0, stdout |-> NoneText, stderr |-> ""]}
    \cup {[kind |-> "ran", rc |-> 0, stdout |-> out, stderr |-> err] :
            out \in {EmptyText, BlankText},
            err \in {"", ErrText(i)}}
    \cup {[kind |-> "ran", rc |-> 0, stdout |-> out, stderr |-> err] :
            out \in {GarbageText} \cup {JsonText(d) : d \in PipelineDocs},
            err \in {"", ErrText(i)}}
    \cup {[kind |-> "ran", rc |-> 1, stdout |-> out, stderr |-> err] :
            out \in {EmptyText, GarbageText},
            err \in {" ", ErrText(i)}}

\* faulty variant of Accepts: the exit status is not looked at
Accepts_AnyStatus(result) == ~IsBlank(result.stdout)

\* result.returncode == 0 and (result.stdout or "").strip()
Accepts(result) == result.rc = 0 /\ ~IsBlank(result.stdout)

Returned(stdout, stderr, cmd) ==
    [done |-> TRUE, stdout |-> stdout, stderr |-> stderr, cmd |-> cmd]

\* one pass of "for cmd in candidates", and the return after the last pass
RunCandidate ==
    /\ mode = "pipeline"
    /\ pc = "run_xcresulttool"
    /\ tool.i <= Len(Candidates)
    /\ \E result \in RunResults(tool.i) :
          LET cmd == Candidates[tool.i]
              ran == Append(tool.ran, [cmd |-> cmd, result |-> result])
              stderr == IF ~IsBlankErr(result.stderr) THEN result.stderr
                        ELSE tool.last_stderr
          IN  \/ /\ result.kind = "notfound"
                 /\ tool' = [tool EXCEPT !.ran = ran, !.last_cmd = cmd,
                                         !.ret = Returned(NoneText, CouldNotExecute, cmd)]
                 /\ pc' = "process"
                 /\ outcome' = outcome
              \/ /\ result.kind = "oserror"
                 /\ tool' = [tool EXCEPT !.ran = ran, !.last_cmd = cmd]
                 /\ pc' = "done"
                 /\ outcome' = [kind |-> "OSError", cmd |-> "", err |-> "", val |-> <<>>]
              \/ /\ result.kind = "ran"
                 /\ Accepts(result)
                 /\ tool' = [tool EXCEPT !.ran = ran, !.last_cmd = cmd,
                                         !.ret = Returned(result.stdout, result.stderr, cmd)]
                 /\ pc' = "process"
                 /\ outcome' = outcome
              \/ /\ result.kind = "ran"
                 /\ ~Accepts(result)
                 /\ tool.i < Len(Candidates)
                 /\ tool' = [tool EXCEPT !.ran = ran, !.last_cmd = cmd,
                                         !.last_stderr = stderr, !.i = tool.i + 1]
                 /\ pc' = "run_xcresulttool"
                 /\ outcome' = outcome
              \/ /\ result.kind = "ran"
                 /\ ~Accepts(result)
                 /\ tool.i = Len(Candidates)
                 /\ tool' = [tool EXCEPT !.ran = ran, !.last_cmd = cmd,
                                         !.last_stderr = stderr, !.i = tool.i + 1,
                                         !.ret = Returned(NoneText, stderr, cmd)]
                 /\ pc' = "process"
                 /\ outcome' = outcome
    /\ UNCHANGED <<mode, cli, gui, web, data, counts, details, cfg, fs, screenshots>>

---------------------------------------------------------------------------
(* _process_xcresult_to_html, after run_xcresulttool has returned *)

\* faulty variant of JsonLoads: a text that is not JSON is read as null
JsonLoads_Lenient(text) ==
    IF text.kind = "json" THEN [ok |-> TRUE, doc |-> text.doc]
    ELSE [ok |-> TRUE, doc |-> NullV]

\* json.loads: the document of a JSON text, an exception for any other text
JsonLoads(text) ==
    IF text.kind = "json" THEN [ok |-> TRUE, doc |-> text.doc]
    ELSE [ok |-> FALSE, doc |-> NullV]

\* the details of "Failed to extract summary from xcresult."
ErrorOutput(err_text) ==
    IF IsBlankErr(err_text) THEN "No error output captured." ELSE StripErr(err_text)

\* faulty variant of WritesDebugJson: the sidecar is never written
WritesDebugJson_Never(json_str) == FALSE

\* faulty variant of WritesDebugJson: the sidecar is written whatever was returned
WritesDebugJson_Always(json_str) == TRUE

\* "if json_str:" before the sidecar is written
WritesDebugJson(json_str) == json_str.kind \notin {"None", "empty"}

\* faulty variant of WriteFailureLeaves: an exception of the write is not caught
WriteFailureLeaves_Uncaught(writable) == ~writable

\* "except Exception: pass" around the write of the sidecar: whether an exception
\* of the write leaves the try
WriteFailureLeaves(writable) == FALSE

\* the sidecar, then "if not json_str: raise RuntimeError"
SaveDebugJson ==
    /\ mode = "pipeline"
    /\ pc = "process"
    /\ LET json_str == tool.ret.stdout
       IN  \E writable \in BOOLEAN :
              /\ WritesDebugJson(json_str) \/ writable
              /\ fs' = IF WritesDebugJson(json_str) /\ writable
                       THEN [fs EXCEPT !.json = json_str, !.order = Append(fs.order, "json")]
                       ELSE IF WritesDebugJson(json_str)
                       THEN [fs EXCEPT !.json_error = TRUE]
                       ELSE fs
              /\ IF WritesDebugJson(json_str) /\ WriteFailureLeaves(writable)
                 THEN /\ outcome' = [kind |-> "OSError", cmd |-> "", err |-> "", val |-> <<>>]
                      /\ pc' = "done"
                 ELSE IF json_str.kind \in {"None", "empty"}
                 THEN /\ outcome' = [kind |-> "ExtractError", cmd |-> tool.ret.cmd,
                                     err |-> ErrorOutput(tool.ret.stderr), val |-> <<>>]
                      /\ pc' = "done"
                 ELSE /\ outcome' = outcome
                      /\ pc' = "parse"
    /\ UNCHANGED <<mode, cli, gui, web, data, counts, details, tool, cfg, screenshots>>

\* json.loads, then extract_counts
ParseAndCount ==
    /\ mode = "pipeline"
    /\ pc = "parse"
    /\ LET parsed == JsonLoads(tool.ret.stdout)
       IN  IF parsed.ok
           THEN /\ data' = parsed.doc
                /\ counts' = extract_counts(parsed.doc)
                /\ pc' = "details"
                /\ outcome' = outcome
           ELSE /\ outcome' = [kind |-> "ParseError", cmd |-> "", err |-> "", val |-> <<>>]
                /\ pc' = "done"
                /\ UNCHANGED <<data, counts>>
    /\ UNCHANGED <<mode, cli, gui, web, details, tool, cfg, fs, screenshots>>

\* the manifests the export leaves in the pipeline: one entry for SuiteA/testFoo,
\* no entry, a number, and an object whose entry list is a number
PipelineManifests ==
    {ListV(<<DictV(<<"testIdentifier", "attachments">>,
                   <<SuiteAFoo,
                     ListV(<<DictV(<<"exportedFileName">>, <<StrV(<<"a", ".", "p", "n", "g">>)>>)>>)>>)>>),
     EmptyDict,
     IntV(5),
     DictV(<<"attachments">>, <<IntV(5)>>)}

\* what the export step can meet
ExportResults ==
    {ExportCase(k, NullV) :
        k \in {"mkdir raises", "timeout", "process error", "non-zero exit", "no manifest",
               "unparsable manifest"}}
    \cup {ExportCase("manifest", m) : m \in PipelineManifests}

\* faulty variant of ExportsAttachments: the records are not looked at
ExportsAttachments_WithoutDetails(recs, include_screenshots) == include_screenshots

\* "if details and include_screenshots:"
ExportsAttachments(recs, include_screenshots) == recs # <<>> /\ include_screenshots

\* faulty variant of CountsPastDetails: the failed count is the number of records
CountsPastDetails_FromRecords(c, found) ==
    IF found.recs # <<>> THEN [c EXCEPT !.val[2] = Len(found.recs)] ELSE c

\* passed, failed, skipped after "if include_details:": the block assigns none of them
CountsPastDetails(c, found) == c

\* "if include_details:" with the detail extraction and the export of attachments
ExtractDetails ==
    /\ mode = "pipeline"
    /\ pc = "details"
    /\ \/ /\ ~cfg.include_details
          /\ pc' = "html"
          /\ UNCHANGED <<counts, details, fs, screenshots, outcome>>
       \/ /\ cfg.include_details
          /\ LET found == extract_details_from_summary(data)
             IN  \/ /\ found.raised
                    /\ counts' = counts
                    /\ details' = found
                    /\ outcome' = [kind |-> "TypeError", cmd |-> "", err |-> "", val |-> <<>>]
                    /\ pc' = "done"
                    /\ UNCHANGED <<fs, screenshots>>
                 \/ /\ ~found.raised
                    /\ ~ExportsAttachments(found.recs, cfg.include_screenshots)
                    /\ counts' = CountsPastDetails(counts, found)
                    /\ details' = found
                    /\ pc' = "html"
                    /\ UNCHANGED <<fs, screenshots, outcome>>
                 \/ /\ ~found.raised
                    /\ ExportsAttachments(found.recs, cfg.include_screenshots)
                    /\ counts' = CountsPastDetails(counts, found)
                    /\ details' = found
                    /\ \E case \in ExportResults :
                          LET exported == export_attachments(case)
                              made == [fs EXCEPT !.screenshot_dir = TRUE,
                                                 !.order = Append(fs.order, "screenshots")]
                          IN  IF exported.raised
                              THEN /\ outcome' = [kind |-> IF case.kind = "mkdir raises"
                                                           THEN "OSError" ELSE "TypeError",
                                                  cmd |-> "", err |-> "", val |-> <<>>]
                                   /\ pc' = "done"
                                   /\ fs' = IF case.kind = "mkdir raises" THEN fs ELSE made
                                   /\ screenshots' = [screenshots EXCEPT !.export = case]
                              ELSE /\ fs' = made
                                   /\ screenshots' =
                                         [dir |-> exported.dir,
                                          map |-> IF TruthyIndex(exported.map)
                                                  THEN exported.map ELSE NoneIndex,
                                          export |-> case]
                                   /\ pc' = "html"
                                   /\ outcome' = outcome
    /\ UNCHANGED <<mode, cli, gui, web, data, tool, cfg>>

\* title = report_title or "XCTest Summary", for a call without report_title:
\* the characters of the str
DefaultTitle == <<"X", "C", "T", "e", "s", "t", " ", "S", "u", "m", "m", "a", "r", "y">>

\* Path(xcresult_path).name
SourceName == <<"T", "e", "s", "t", "s", ".", "x", "c", "r", "e", "s", "u", "l", "t">>

\* build_html, the write of the artifact, and the return
WriteHtml ==
    /\ mode = "pipeline"
    /\ pc = "html"
    /\ \E writable \in BOOLEAN :
          IF writable
          THEN /\ fs' = [fs EXCEPT !.html = [written |-> TRUE,
                                             text |-> build_html(counts.val[1], counts.val[2],
                                                                 counts.val[3], SourceName,
                                                                 DefaultTitle, details.recs,
                                                                 screenshots.dir,
                                                                 screenshots.map)],
                                   !.order = Append(fs.order, "html")]
               /\ outcome' = [kind |-> "returned", cmd |-> "", err |-> "",
                              val |-> counts.val]
          ELSE /\ fs' = fs
               /\ outcome' = [kind |-> "WriteError", cmd |-> "", err |-> "", val |-> <<>>]
    /\ pc' = "done"
    /\ UNCHANGED <<mode, cli, gui, web, data, counts, details, tool, cfg, screenshots>>

---------------------------------------------------------------------------
(* run_cli: the exit code *)

\* what the PDF step meets: weasyprint cannot be imported, write_pdf raises, the
\* PDF is written, or write_pdf returns and the file is missing or empty
PdfResults == {"unavailable", "raises", "written", "not created", "empty"}

\* the value run_cli returns
ExitCode(returned, pdf_output_path, pdf) ==
    IF ~returned THEN 1
    ELSE IF ~pdf_output_path THEN 0
    ELSE IF pdf = "unavailable" THEN 0
    ELSE IF pdf = "raises" THEN 1
    ELSE 0

\* run_cli after _process_xcresult_to_html has returned or raised
RunCli ==
    /\ mode = "pipeline"
    /\ pc = "done"
    /\ ~cli.exited
    /\ \E pdf_output_path \in BOOLEAN, pdf \in PdfResults :
          LET returned == outcome.kind = "returned"
          IN  cli' = [exited |-> TRUE,
                      pdf_output_path |-> pdf_output_path,
                      pdf |-> IF returned /\ pdf_output_path THEN pdf ELSE "none",
                      code |-> ExitCode(returned, pdf_output_path, pdf)]
    /\ UNCHANGED <<mode, gui, web, data, pc, counts, details, tool, cfg, fs, screenshots,
                   outcome>>

\* faulty variant of MainScreenshots: the flag is passed on as given
MainScreenshots_AsGiven(include_details, include_screenshots) == include_screenshots

\* main: include_screenshots=bool(args.include_screenshots) if args.include_details
\* else False
MainScreenshots(include_details, include_screenshots) ==
    IF include_details THEN include_screenshots ELSE FALSE

\* the configurations main hands to run_cli, for every command line
MainConfigs ==
    {[include_details |-> d, include_screenshots |-> MainScreenshots(d, s),
      requested_screenshots |-> s] : d \in BOOLEAN, s \in BOOLEAN}

\* the configurations of a direct call of run_cli or _process_xcresult_to_html
CallConfigs ==
    {[include_details |-> d, include_screenshots |-> s, requested_screenshots |-> s] :
        d \in BOOLEAN, s \in BOOLEAN}

Init ==
    /\ mode = "pipeline"
    /\ data = NullV
    /\ pc = "run_xcresulttool"
    /\ counts = NoCounts
    /\ details = NoDetails
    /\ tool = IdleTool
    /\ cfg \in MainConfigs \cup CallConfigs
    /\ fs = IdleFs
    /\ screenshots = NoScreenshots
    /\ outcome = IdleOutcome
    /\ cli = IdleCli
    /\ gui = IdleGui
    /\ web = IdleWeb

Next ==
    RunCandidate \/ SaveDebugJson \/ ParseAndCount \/ ExtractDetails \/ WriteHtml \/ RunCli

Spec == Init /\ [][Next]_vars

---------------------------------------------------------------------------
(* The manifest parser and build_html called on their own: the index of one *)
(* manifest, then the report of one triple and one list of records with    *)
(* that index.  Identifiers and file names are text.                       *)

\* file names
FileA == StrV(<<"a", ".", "p", "n", "g">>)

FileB == StrV(<<"b", ".", "p", "n", "g">>)

FileC == StrV(<<"c", ".", "p", "n", "g">>)

\* test identifiers
IdAf == StrV(<<"A", "/", "f">>)

IdBf == StrV(<<"B", "/", "f">>)

IdXAf == StrV(<<"x", "/", "A", "/", "f">>)

IdYAf == StrV(<<"y", "/", "A", "/", "f">>)

IdF == StrV(<<"f">>)

IdAg == StrV(<<"A", "/", "g">>)

UrlAf == StrV(<<"t", ":", "/", "/", "A", "/", "f">>)

Att(fn) == DictV(<<"exportedFileName">>, <<fn>>)

\* an entry of the manifest; Absent marks a key the entry does not have
Entry(id, url, atts) ==
    DictOf(<<"testIdentifier", "testIdentifierURL", "attachments">>, <<id, url, atts>>)

\* the attachment lists of an entry: one file, two files, none, one without a
\* name, a non-dict before a file, more files than a row shows
AttLists ==
    {ListV(<<Att(FileA)>>),
     ListV(<<Att(FileA), Att(FileB)>>),
     ListV(<<>>),
     ListV(<<Att(EmptyStr)>>),
     ListV(<<IntV(1), DictV(<<"name">>, <<FileA>>), Att(FileB)>>),
     Absent}

ManyFiles == ListV([i \in 1..(MaxImgs + 1) |-> Att(StrV(<<Digits[((i - 1) % 10) + 1]>>))])

Entries ==
    {Entry(id, url, atts) :
        id \in {Absent, EmptyStr, IdAf, IdF},
        url \in {Absent, UrlAf, IdAf},
        atts \in AttLists}

\* entries that lists of two are built from
RepEntries ==
    {Entry(IdAf, Absent, ListV(<<Att(FileA)>>)),
     Entry(IdAf, UrlAf, ListV(<<Att(FileC)>>)),
     Entry(IdBf, Absent, ListV(<<Att(FileB)>>)),
     Entry(IdXAf, Absent, ListV(<<Att(FileA), Att(FileB)>>)),
     Entry(IdYAf, Absent, ListV(<<Att(FileC), Att(FileA)>>)),
     Entry(IdAg, IdAf, ListV(<<Att(FileB), Att(FileC)>>)),
     Entry(IdF, Absent, ManyFiles),
     Entry(IdAf, Absent, ListV(<<>>)),
     IntV(1)}

\* the shapes of a manifest around its list of entries
ManifestShapes(list) ==
    {list,
     DictV(<<"testAttachmentDetails">>, <<list>>),
     DictV(<<"testAttachmentDetailsList">>, <<list>>),
     DictV(<<"attachments">>, <<list>>),
     DictV(<<"testAttachmentDetails", "attachments">>, <<ListV(<<>>), list>>),
     DictV(<<"version", "testAttachmentDetailsList", "attachments">>,
           <<IntV(1), list, ListV(<<Entry(IdF, Absent, ListV(<<Att(FileC)>>))>>)>>)}

\* manifests the parser does not read entries from, or raises on
OddManifests ==
    {EmptyDict, NullV, IntV(5), StrV(<<"a", "b">>),
     DictV(<<"other">>, <<ListV(<<Entry(IdAf, Absent, ListV(<<Att(FileA)>>))>>)>>),
     DictV(<<"attachments">>, <<IntV(5)>>),
     DictV(<<"attachments">>, <<StrV(<<"a", "b">>)>>),
     ListV(<<Entry(IdAf, Absent, IntV(5))>>),
     ListV(<<Entry(EmptyStr, Absent, IntV(5))>>),
     ListV(<<Entry(ListV(<<IdAf>>), Absent, ListV(<<Att(FileA)>>))>>),
     ListV(<<Entry(IdAf, ListV(<<IdAf>>), ListV(<<Att(FileA)>>))>>)}

Manifests ==
    UNION {ManifestShapes(ListV(<<e>>)) : e \in Entries}
    \cup {ListV(<<a, b>>) : a \in RepEntries, b \in RepEntries}
    \cup OddManifests

\* a record of the details list, as _extract_details_from_summary builds it
Record(name, suite, failure, id) ==
    [name |-> name, status |-> "Failed", suite |-> suite, failure |-> failure,
     testIdentifierString |-> id]

SuiteA == StrV(<<"A">>)

Boom == StrV(<<"b", "o", "o", "m">>)

\* the lists of records of the reports: none, rows whose identifier is a key, is
\* inside a key, shares its last segment with a key, is empty, and rows whose
\* texts hold characters that HTML gives a meaning to
RecordLists ==
    {<<>>,
     <<Record(IdF, SuiteA, Boom, IdAf)>>,
     <<Record(IdF, SuiteA, EmptyStr, IdF)>>,
     <<Record(IdF, SuiteA, Boom, EmptyStr)>>,
     <<Record(StrV(<<"g">>), SuiteA, EmptyStr, IdAg), Record(IdF, SuiteA, Boom, IdAf)>>,
     <<Record(StrV(<<"<", "b", ">">>), StrV(<<"A", "&", "B">>), StrV(<<"a", "<", "\"", "1", "\"">>), StrV(<<"C", "/", "f">>))>>}

\* the triples of the reports: every triple over Counts, and two with longer numerals
Triples ==
    {<<p, f, k>> : p \in Counts, f \in Counts, k \in Counts}
    \cup {<<10, 2, 1>>, <<95, 5, 0>>, <<120, 0, 34>>}

\* the calls: every manifest with every list of records, and every triple
RenderInputs ==
    {[manifest |-> m, triple |-> <<10, 2, 1>>, items |-> d] :
        m \in Manifests, d \in RecordLists}
    \cup {[manifest |-> EmptyDict, triple |-> t, items |-> d] :
            t \in Triples, d \in {<<>>, <<Record(IdF, SuiteA, Boom, IdAf)>>}}

InitRender ==
    /\ mode = "render"
    /\ \E in \in RenderInputs :
          /\ data = in.manifest
          /\ counts = [raised |-> FALSE, val |-> in.triple]
          /\ details = [raised |-> FALSE, recs |-> in.items]
    /\ pc = "ready"
    /\ tool = IdleTool
    /\ cfg = IdleCfg
    /\ fs = IdleFs
    /\ screenshots = NoScreenshots
    /\ outcome = IdleOutcome
    /\ cli = IdleCli
    /\ gui = IdleGui
    /\ web = IdleWeb

\* the manifest is read and the index built
CallExportAttachments ==
    /\ mode = "render"
    /\ pc = "ready"
    /\ LET exported == export_attachments(ExportCase("manifest", data))
       IN  /\ screenshots' = [dir |-> exported.dir, map |-> exported.map,
                              export |-> ExportCase("manifest", data)]
           /\ pc' = IF exported.raised THEN "raised" ELSE "indexed"
    /\ UNCHANGED <<mode, cli, gui, web, data, counts, details, tool, cfg, fs, outcome>>

\* the report of the triple and the records, with the index
CallBuildHtml ==
    /\ mode = "render"
    /\ pc = "indexed"
    /\ fs' = [fs EXCEPT !.html = [written |-> TRUE,
                                  text |-> build_html(counts.val[1], counts.val[2],
                                                      counts.val[3], SourceName, DefaultTitle,
                                                      details.recs, screenshots.dir,
                                                      screenshots.map)]]
    /\ pc' = "rendered"
    /\ UNCHANGED <<mode, cli, gui, web, data, counts, details, tool, cfg, screenshots, outcome>>

NextRender == CallExportAttachments \/ CallBuildHtml

SpecRender == InitRender /\ [][NextRender]_vars

---------------------------------------------------------------------------
(* The output path of the desktop front end.  A path is the characters of  *)
(* a file name in the output directory; the files of the directory are a   *)
(* set of names.                                                           *)

\* name.rfind("."), counted from 1: 0 when the name has no "."
LastDot(name) ==
    LET dots == {i \in 1..Len(name) : name[i] = "."}
    IN  IF dots = {} THEN 0 ELSE CHOOSE i \in dots : \A j \in dots : j <= i

\* Path.suffix: from the last ".", unless the name starts or ends with it
PathSuffix(name) ==
    IF 1 < LastDot(name) /\ LastDot(name) < Len(name)
    THEN SubSeq(name, LastDot(name), Len(name))
    ELSE <<>>

\* Path.stem: the name without its suffix
PathStem(name) ==
    IF 1 < LastDot(name) /\ LastDot(name) < Len(name)
    THEN SubSeq(name, 1, LastDot(name) - 1)
    ELSE name

\* Path(out_html_path).with_suffix(".json")
WithSuffix(name, suffix) == PathStem(name) \o suffix

HtmlSuffix == <<".", "h", "t", "m", "l">>

JsonSuffix == <<".", "j", "s", "o", "n">>

\* suffix = p.suffix or ".html"
SuffixOrHtml(name) == IF PathSuffix(name) = <<>> THEN HtmlSuffix ELSE PathSuffix(name)

\* f"{stem}_{n}{suffix}"
Numbered(stem, n, suffix) == stem \o <<"_">> \o IntChars(n) \o suffix

\* "n = 1; while (...).exists(): n += 1"
RECURSIVE FirstFree(_, _, _, _)
FirstFree(stem, suffix, n, files) ==
    IF Numbered(stem, n, suffix) \in files THEN FirstFree(stem, suffix, n + 1, files) ELSE n

\* faulty variant of next_available_report_path: the numbered name is not probed
next_available_report_path_Unprobed(path, files) ==
    IF path \notin files THEN path
    ELSE Numbered(PathStem(path), 1, SuffixOrHtml(path))

\* _next_available_report_path
next_available_report_path(path, files) ==
    IF path \notin files THEN path
    ELSE Numbered(PathStem(path),
                  FirstFree(PathStem(path), SuffixOrHtml(path), 1, files),
                  SuffixOrHtml(path))

\* the names of the output directory
ReportHtml == <<"r", "e", "p", "o", "r", "t", ".", "h", "t", "m", "l">>

Report1Html == <<"r", "e", "p", "o", "r", "t", "_", "1", ".", "h", "t", "m", "l">>

Report2Html == <<"r", "e", "p", "o", "r", "t", "_", "2", ".", "h", "t", "m", "l">>

ReportBare == <<"r", "e", "p", "o", "r", "t">>

Report1Bare == <<"r", "e", "p", "o", "r", "t", "_", "1">>

ReportJson == <<"r", "e", "p", "o", "r", "t", ".", "j", "s", "o", "n">>

\* the paths the user chooses in the save dialog
OutputNames == {ReportHtml, Report1Html, ReportBare, ReportJson}

\* the files the output directory may hold when the window opens
FilesAtStart == SUBSET {ReportHtml, Report1Html, Report2Html, ReportBare, Report1Bare}

\* the number of "Generate HTML" actions of a session
MaxRuns == 2

\* how _process_xcresult_to_html ends, as far as its files go: nothing is written
\* when the extraction gave nothing, the sidecar alone when the parse or a later
\* step raised, the sidecar and the HTML when it returned
ConversionResults == {"extract error", "raised", "returned"}

\* the files after the conversion wrote to out_path; the sidecar is there when its
\* write was attempted and did not raise
FilesAfter(files, out_path, result, sidecar_writable) ==
    files
    \cup (IF result # "extract error" /\ sidecar_writable
          THEN {WithSuffix(out_path, JsonSuffix)} ELSE {})
    \cup (IF result = "returned" THEN {out_path} ELSE {})

NoGeneration ==
    [ran |-> FALSE, given |-> <<>>, out_path |-> <<>>, before |-> {}, html_written |-> FALSE]

InitGui ==
    /\ mode = "gui"
    /\ gui \in {[files |-> f, output_path |-> ReportHtml, runs |-> 0, last |-> NoGeneration] :
                  f \in FilesAtStart}
    /\ data = NullV
    /\ pc = "ready"
    /\ counts = NoCounts
    /\ details = NoDetails
    /\ tool = IdleTool
    /\ cfg = IdleCfg
    /\ fs = IdleFs
    /\ screenshots = NoScreenshots
    /\ outcome = IdleOutcome
    /\ cli = IdleCli
    /\ web = IdleWeb

\* _choose_output: the save dialog returned a path
ChooseOutput ==
    /\ mode = "gui"
    /\ \E path \in OutputNames : gui' = [gui EXCEPT !.output_path = path]
    /\ UNCHANGED <<mode, cli, web, data, pc, counts, details, tool, cfg, fs, screenshots,
                   outcome>>

\* _generate_html: without a bundle it returns after the message box; otherwise the
\* output path is replaced by the next available one and the conversion writes there
GenerateHtml ==
    /\ mode = "gui"
    /\ gui.runs < MaxRuns
    /\ \E has_bundle \in BOOLEAN, result \in ConversionResults, sidecar_writable \in BOOLEAN :
          IF ~has_bundle
          THEN gui' = [gui EXCEPT !.runs = @ + 1, !.last = NoGeneration]
          ELSE LET out_path == next_available_report_path(gui.output_path, gui.files)
               IN  gui' = [files |-> FilesAfter(gui.files, out_path, result, sidecar_writable),
                           output_path |-> out_path,
                           runs |-> gui.runs + 1,
                           last |-> [ran |-> TRUE,
                                     given |-> gui.output_path,
                                     out_path |-> out_path,
                                     before |-> gui.files,
                                     html_written |-> result = "returned"]]
    /\ UNCHANGED <<mode, cli, web, data, pc, counts, details, tool, cfg, fs, screenshots,
                   outcome>>

NextGui == ChooseOutput \/ GenerateHtml

SpecGui == InitGui /\ [][NextGui]_vars

---------------------------------------------------------------------------
(* The upload handler of the web front end (server/app.py).  A path is the *)
(* sequence of its components; the file system is the set of the paths     *)
(* that exist.  A request is at "idle" before it arrives, at "convert"     *)
(* while _process_xcresult_to_html runs, at "finally" when it has returned *)
(* or raised, and at "done" when the response is sent; requests are        *)
(* served concurrently.                                                    *)

UPLOAD_DIR == <<"tmp", "xcresult_server_uploads">>

REPORT_DIR == <<"tmp", "xcresult_server_reports">>

\* Path.parent: the parent of the root is the root
Parent(p) == IF p = <<>> THEN p ELSE SubSeq(p, 1, Len(p) - 1)

\* p is root or lies under it
IsUnder(root, p) == Len(root) <= Len(p) /\ SubSeq(p, 1, Len(root)) = root

\* shutil.rmtree(root, ignore_errors=True)
RmTree(paths, root) == {p \in paths : ~IsUnder(root, p)}

\* faulty variant of CleanupPath: the bundle itself
CleanupPath_Bundle(p) == p

\* "cleanup = xcresult_path; while cleanup.parent != UPLOAD_DIR and
\* cleanup.parent != cleanup: cleanup = cleanup.parent"
RECURSIVE CleanupPath(_)
CleanupPath(p) ==
    IF Parent(p) # UPLOAD_DIR /\ Parent(p) # p THEN CleanupPath(Parent(p)) ELSE p

\* the requests in flight
Requests == {1, 2}

\* uuid.uuid4().hex[:12] of the upload and of the report of request r; the
\* identifiers of different requests differ
JobId(r) == <<"job1", "job2">>[r]

ReportId(r) == <<"report1.html", "report2.html">>[r]

JobDir(r) == UPLOAD_DIR \o <<JobId(r)>>

\* the local_path of the form: the path it resolves to and the suffix of its name;
\* the empty field has no path
NoLocalPath == [path |-> <<>>, suffix |-> ""]

LocalBundle == [path |-> <<"Users", "me", "Tests.xcresult">>, suffix |-> ".xcresult"]

LocalGone == [path |-> <<"Users", "me", "Gone.xcresult">>, suffix |-> ".xcresult"]

LocalNotes == [path |-> <<"Users", "me", "notes.txt">>, suffix |-> ".txt"]

\* a bundle that an earlier upload left in the upload directory
LocalLeftover ==
    [path |-> UPLOAD_DIR \o <<"job0", "extracted", "Old.xcresult">>, suffix |-> ".xcresult"]

LocalPaths == {NoLocalPath, LocalBundle, LocalGone, LocalNotes, LocalLeftover}

\* the paths that exist when the server starts
PathsAtStart ==
    {LocalBundle.path, LocalBundle.path \o <<"Info.plist">>, LocalNotes.path,
     UPLOAD_DIR \o <<"job0">>, UPLOAD_DIR \o <<"job0", "extracted">>,
     LocalLeftover.path, LocalLeftover.path \o <<"Info.plist">>}

\* the uploaded file: none, a file that is not a zip, a zip that cannot be
\* extracted, a zip without a bundle, a zip with the bundle at its top or deeper,
\* and a zip of the contents of a bundle
Uploads ==
    {"none", "not a zip", "unreadable zip", "zip without bundle", "bundle", "nested bundle",
     "bundle contents"}

\* _unpack_upload: the paths it creates, the exception it raises, the bundle it returns
UnpackUpload(job_dir, upload) ==
    LET saved == job_dir \o <<"upload.zip">>
        extract_dir == job_dir \o <<"extracted">>
        renamed == job_dir \o <<"extracted.xcresult">>
    IN  CASE upload = "not a zip" ->
               [raised |-> "ValueError", created |-> {job_dir, saved}, bundle |-> <<>>]
          [] upload = "unreadable zip" ->
               [raised |-> "Exception", created |-> {job_dir, saved, extract_dir},
                bundle |-> <<>>]
          [] upload = "zip without bundle" ->
               [raised |-> "ValueError",
                created |-> {job_dir, saved, extract_dir, extract_dir \o <<"readme.txt">>},
                bundle |-> <<>>]
          [] upload = "bundle" ->
               [raised |-> "none",
                created |-> {job_dir, saved, extract_dir,
                             extract_dir \o <<"Tests.xcresult">>,
                             extract_dir \o <<"Tests.xcresult", "Info.plist">>},
                bundle |-> extract_dir \o <<"Tests.xcresult">>]
          [] upload = "nested bundle" ->
               [raised |-> "none",
                created |-> {job_dir, saved, extract_dir, extract_dir \o <<"build">>,
                             extract_dir \o <<"build", "Tests.xcresult">>,
                             extract_dir \o <<"build", "Tests.xcresult", "Info.plist">>},
                bundle |-> extract_dir \o <<"build", "Tests.xcresult">>]
          [] upload = "bundle contents" ->
               [raised |-> "none",
                created |-> {job_dir, saved, renamed, renamed \o <<"Info.plist">>},
                bundle |-> renamed]

\* _resolve_local_path raises ValueError
LocalPathRejected(local, paths) == local.path \notin paths \/ local.suffix # ".xcresult"

NoRequest ==
    [pc |-> "idle", local_path |-> NoLocalPath, upload |-> "none", xcresult_path |-> <<>>,
     cleanup_path |-> <<>>, converted |-> "none", found |-> FALSE, response |-> "none"]

InitWeb ==
    /\ mode = "web"
    /\ web = [paths |-> PathsAtStart, req |-> [r \in Requests |-> NoRequest]]
    /\ data = NullV
    /\ pc = "ready"
    /\ counts = NoCounts
    /\ details = NoDetails
    /\ tool = IdleTool
    /\ cfg = IdleCfg
    /\ fs = IdleFs
    /\ screenshots = NoScreenshots
    /\ outcome = IdleOutcome
    /\ cli = IdleCli
    /\ gui = IdleGui

\* upload(), up to the call of _process_xcresult_to_html or to the response that
\* ends the request
Upload(r) ==
    /\ mode = "web"
    /\ web.req[r].pc = "idle"
    /\ \E local \in LocalPaths, upload \in Uploads :
          LET arrived == [web.req[r] EXCEPT !.local_path = local, !.upload = upload]
              unpacked == UnpackUpload(JobDir(r), upload)
          IN  IF local = NoLocalPath /\ upload = "none"
              THEN web' = [web EXCEPT !.req[r] =
                             [arrived EXCEPT !.pc = "done", !.response = "index"]]
              ELSE IF local # NoLocalPath
              THEN IF LocalPathRejected(local, web.paths)
                   THEN web' = [web EXCEPT !.req[r] =
                                  [arrived EXCEPT !.pc = "done", !.response = "index"]]
                   ELSE web' = [web EXCEPT !.req[r] =
                                  [arrived EXCEPT !.pc = "convert",
                                                  !.xcresult_path = local.path]]
              ELSE IF unpacked.raised # "none"
              THEN web' = [paths |-> web.paths \cup unpacked.created,
                           req |-> [web.req EXCEPT ![r] =
                                      [arrived EXCEPT !.pc = "done", !.response = "index"]]]
              ELSE web' = [paths |-> web.paths \cup unpacked.created,
                           req |-> [web.req EXCEPT ![r] =
                                      [arrived EXCEPT
                                          !.pc = "convert",
                                          !.xcresult_path = unpacked.bundle,
                                          !.cleanup_path = CleanupPath(unpacked.bundle)]]]
    /\ UNCHANGED <<mode, cli, gui, data, pc, counts, details, tool, cfg, fs, screenshots,
                   outcome>>

\* _generate_report: _process_xcresult_to_html returns, and the report is there,
\* or raises
Convert(r) ==
    /\ mode = "web"
    /\ web.req[r].pc = "convert"
    /\ \E returned \in BOOLEAN :
          web' = [paths |-> IF returned THEN web.paths \cup {REPORT_DIR \o <<ReportId(r)>>}
                            ELSE web.paths,
                  req |-> [web.req EXCEPT ![r] =
                             [@ EXCEPT !.pc = "finally",
                                       !.found = web.req[r].xcresult_path \in web.paths,
                                       !.converted = IF returned THEN "returned"
                                                     ELSE "raised"]]]
    /\ UNCHANGED <<mode, cli, gui, data, pc, counts, details, tool, cfg, fs, screenshots,
                   outcome>>

\* _generate_report: the finally clause and the redirect
Finish(r) ==
    /\ mode = "web"
    /\ web.req[r].pc = "finally"
    /\ web' = [paths |-> IF web.req[r].cleanup_path # <<>>
                         THEN RmTree(web.paths, web.req[r].cleanup_path)
                         ELSE web.paths,
               req |-> [web.req EXCEPT ![r] =
                          [@ EXCEPT !.pc = "done",
                                    !.response = IF web.req[r].converted = "returned"
                                                 THEN "report" ELSE "index"]]]
    /\ UNCHANGED <<mode, cli, gui, data, pc, counts, details, tool, cfg, fs, screenshots,
                   outcome>>

NextWeb == \E r \in Requests : Upload(r) \/ Convert(r) \/ Finish(r)

SpecWeb == InitWeb /\ [][NextWeb]_vars

---------------------------------------------------------------------------
(* What the specification says of the normaliser, stated on the document   *)
(* itself: positions in the tree, key sets, integer fields.                *)

\* the positions of a tree: the path of child indices from the root
RECURSIVE AllPaths(_)
AllPaths(v) ==
    {<<>>} \cup UNION {{<<i>> \o q : q \in AllPaths(v.items[i])} : i \in 1..Len(v.items)}

RECURSIVE NodeAt(_, _)
NodeAt(v, path) == IF path = <<>> THEN v ELSE NodeAt(v.items[Head(path)], Tail(path))

MappingPaths(v) == {q \in AllPaths(v) : NodeAt(v, q).t = "dict"}

\* document order: a node before the nodes inside it, siblings in their order
Before(a, b) ==
    /\ a # b
    /\ \/ /\ Len(a) < Len(b)
          /\ SubSeq(b, 1, Len(a)) = a
       \/ \E i \in 1..Min(Len(a), Len(b)) :
            /\ SubSeq(a, 1, i - 1) = SubSeq(b, 1, i - 1)
            /\ a[i] < b[i]

\* the first path of a non-empty set of paths, in document order
FirstPath(paths) == CHOOSE a \in paths : \A b \in paths \ {a} : Before(a, b)

\* the key sets of the five recognised patterns
KeysOfPattern(m, k) ==
    CASE k = 1 -> HasKey(m, "passedTests") /\ HasKey(m, "failedTests")
      [] k = 2 -> HasKey(m, "totalTestCount")
                  /\ (HasKey(m, "failedTests") \/ HasKey(m, "testsFailedCount"))
      [] k = 3 -> HasKey(m, "passed") /\ HasKey(m, "failed")
      [] k = 4 -> HasKey(m, "testsPassedCount") /\ HasKey(m, "testsFailedCount")
      [] k = 5 -> HasKey(m, "passedCount") /\ HasKey(m, "failedCount")

Patterns == 1..5

CountBearing(m) == \E k \in Patterns : KeysOfPattern(m, k)

\* the pattern of highest priority whose keys a count-bearing mapping has
TopPattern(m) == CHOOSE k \in Patterns :
                    KeysOfPattern(m, k) /\ \A j \in 1..(k - 1) : ~KeysOfPattern(m, j)

\* the keys a pattern reads: <<passed or total, failed, skipped>>
FieldKeys(m, k) ==
    CASE k = 1 -> <<"passedTests", "failedTests", "skippedTests">>
      [] k = 2 -> <<"totalTestCount",
                    IF HasKey(m, "failedTests") THEN "failedTests" ELSE "testsFailedCount",
                    IF HasKey(m, "skippedTests") THEN "skippedTests"
                                                 ELSE "testsSkippedCount">>
      [] k = 3 -> <<"passed", "failed", "skipped">>
      [] k = 4 -> <<"testsPassedCount", "testsFailedCount", "testsSkippedCount">>
      [] k = 5 -> <<"passedCount", "failedCount", "skippedCount">>

\* an integer, bare or wrapped as {"_value": N}
IsInteger(v) ==
    \/ v.t = "int"
    \/ v.t = "dict" /\ v.keys = <<"_value">> /\ v.items[1].t = "int"

IntegerOf(v) == IF v.t = "int" THEN v.n ELSE v.items[1].n

IsWrapped(v) == v.t = "dict" /\ v.keys = <<"_value">>

\* every field the pattern reads is an integer or missing
IntegerFields(m, k) ==
    \A i \in 1..3 : HasKey(m, FieldKeys(m, k)[i]) => IsInteger(Lookup(m, FieldKeys(m, k)[i]))

\* the integer of a field, 0 when the field is missing
FieldInt(m, key) == IF HasKey(m, key) THEN IntegerOf(Lookup(m, key)) ELSE 0

\* the triple the specification gives for mapping m under pattern k
ExpectedTriple(m, k) ==
    LET a == FieldInt(m, FieldKeys(m, k)[1])
        f == FieldInt(m, FieldKeys(m, k)[2])
        s == FieldInt(m, FieldKeys(m, k)[3])
    IN  IF k = 2 THEN <<IF a - f - s > 0 THEN a - f - s ELSE 0, f, s>> ELSE <<a, f, s>>

CountBearingPaths(v) == {q \in MappingPaths(v) : CountBearing(NodeAt(v, q))}

\* the first count-bearing mapping of a document that has one
FirstCountBearing(v) == NodeAt(v, FirstPath(CountBearingPaths(v)))

Counted == mode = "normalize" /\ pc \in {"counted", "detailed"}

\* C1: when the first count-bearing mapping of the document matches a pattern with
\* integer field values, bare or wrapped as {"_value": N}, extract_counts returns
\* exactly the triple read from that mapping, a missing skipped field counting as 0;
\* Scenario A yields (10, 2, 1).
C1_ExactTriple ==
    Counted =>
        /\ data = ScenarioA => counts.val = <<10, 2, 1>>
        /\ CountBearingPaths(data) # {} =>
              LET m == FirstCountBearing(data)
                  k == TopPattern(m)
              IN  IntegerFields(m, k) =>
                      /\ ~counts.raised
                      /\ counts.val = ExpectedTriple(m, k)

\* C1 witness: a mapping with a wrapped field and without a skipped field was read
C1_Witness ==
    /\ Counted
    /\ CountBearingPaths(data) # {}
    /\ LET m == FirstCountBearing(data)
           k == TopPattern(m)
       IN  /\ IntegerFields(m, k)
           /\ IsWrapped(Lookup(m, FieldKeys(m, k)[1]))
           /\ ~HasKey(m, FieldKeys(m, k)[3])
           /\ counts.val[1] = 2
           /\ counts.val[3] = 0

\* the patterns that return on mapping m: their keys are there and every field
\* they read is coerced
Returning(m) == {k \in Patterns : Blocks(m)[k].kind = "ok"}

LeastOf(S) == CHOOSE k \in S : \A j \in S : k <= j

\* the paths of the mappings on which some pattern returns
ReturningPaths(v) == {q \in MappingPaths(v) : Returning(NodeAt(v, q)) # {}}

\* C2: mappings are visited in document order, a mapping before the mappings nested
\* in its values or in sequences, and the counts are those of the first visited
\* mapping on which a pattern returns, under the pattern of highest priority that
\* returns on it; a later mapping or a pattern of lower priority never overrides it.
C2_FirstMatchWins ==
    (Counted /\ ReturningPaths(data) # {}) =>
        LET m == NodeAt(data, FirstPath(ReturningPaths(data)))
        IN  counts.val = Blocks(m)[LeastOf(Returning(m))].val

\* C2 witness: two mappings return different counts, the second nested in the
\* first, and the counts are those of the outer one; and a mapping on which two
\* patterns return came first
C2_Witness ==
    /\ Counted
    /\ \E a \in ReturningPaths(data), b \in ReturningPaths(data) :
          /\ Before(a, b)
          /\ Len(a) < Len(b)
          /\ FirstPath(ReturningPaths(data)) = a
          /\ Cardinality(Returning(NodeAt(data, a))) = 2
          /\ MatchNode(NodeAt(data, b)).val # counts.val
          /\ MatchNode(NodeAt(data, a)).val = counts.val

\* C3: a document in which no mapping has the keys of any pattern yields (0, 0, 0),
\* and extract_counts does not raise.
C3_NoPatternZero ==
    (Counted /\ CountBearingPaths(data) = {}) =>
        /\ ~counts.raised
        /\ counts.val = <<0, 0, 0>>

\* C3 witness: a document with mappings, none of them count-bearing, gave zeros
C3_Witness ==
    /\ Counted
    /\ CountBearingPaths(data) = {}
    /\ Cardinality(MappingPaths(data)) >= 2
    /\ HasKey(NodeAt(data, FirstPath(MappingPaths(data) \ {<<>>})), "passedTests")
    /\ counts.val = <<0, 0, 0>>

\* the mapping whose counts are returned, when there is one
Winner(v) == NodeAt(v, FirstPath(ReturningPaths(v)))

\* pattern 2 is the pattern that returns
TotalPatternWins(v) == ReturningPaths(v) # {} /\ LeastOf(Returning(Winner(v))) = 2

\* C4: when pattern 2 is the matching pattern, passed = max(total - failed - skipped, 0)
\* with skipped defaulting to 0, so passed is never negative; Scenario B yields
\* (95, 5, 0).
C4_TotalClamped ==
    Counted =>
        /\ data = ScenarioB => counts.val = <<95, 5, 0>>
        /\ TotalPatternWins(data) =>
              LET m == Winner(data)
                  total == Coerce(Lookup(m, FieldKeys(m, 2)[1])).val
                  f == Coerce(Lookup(m, FieldKeys(m, 2)[2])).val
                  s == IF HasKey(m, FieldKeys(m, 2)[3])
                       THEN Coerce(Lookup(m, FieldKeys(m, 2)[3])).val ELSE 0
              IN  /\ counts.val[1] >= 0
                  /\ counts.val[1] = (IF total - f - s >= 0 THEN total - f - s ELSE 0)
                  /\ counts.val[2] = f
                  /\ counts.val[3] = s

\* C4 witness: failed + skipped exceeded total and passed is 0
C4_Witness ==
    /\ Counted
    /\ TotalPatternWins(data)
    /\ LET m == Winner(data)
       IN  /\ HasKey(m, FieldKeys(m, 2)[3])
           /\ counts.val[2] + counts.val[3] > Coerce(Lookup(m, "totalTestCount")).val
           /\ counts.val[2] > 0
           /\ counts.val[3] > 0
    /\ counts.val[1] = 0

\* C5: each of the three integers extract_counts returns is non-negative.
C5_NonNegative == Counted => \A i \in 1..3 : counts.val[i] >= 0

\* the first count-bearing mapping has the keys of a pattern that fails to coerce
\* one of its fields
TopPatternRaises(v) ==
    /\ CountBearingPaths(v) # {}
    /\ Blocks(FirstCountBearing(v))[TopPattern(FirstCountBearing(v))].kind = "raise"

\* the counts of the first mapping after path q on which a pattern returns,
\* (0, 0, 0) when there is none
CountsAfter(v, q) ==
    LET later == {r \in ReturningPaths(v) : Before(q, r)}
    IN  IF later = {} THEN <<0, 0, 0>>
        ELSE LET m == NodeAt(v, FirstPath(later))
             IN  Blocks(m)[LeastOf(Returning(m))].val

\* C6: when a mapping has the keys of a pattern but one of the pattern's fields fails
\* integer coercion, extract_counts does not raise; the pattern is skipped and
\* traversal continues to the next candidate mapping, whose counts, or (0, 0, 0) if
\* there is none, are returned.
C6_SkipToNextMapping ==
    (Counted /\ TopPatternRaises(data)) =>
        /\ ~counts.raised
        /\ counts.val = CountsAfter(data, FirstPath(CountBearingPaths(data)))

\* C6 as amended: the pattern is skipped without raising; the patterns of lower
\* priority are still tried on the same mapping, and only when none of them returns
\* does traversal continue to the next candidate mapping, whose counts, or (0, 0, 0)
\* if there is none, are returned.
C6_SkipPatternThenMapping ==
    (Counted /\ TopPatternRaises(data)) =>
        LET m == FirstCountBearing(data)
        IN  /\ ~counts.raised
            /\ counts.val = (IF Returning(m) # {}
                             THEN Blocks(m)[LeastOf(Returning(m))].val
                             ELSE CountsAfter(data, FirstPath(CountBearingPaths(data))))

\* C6 witness: the first count-bearing mapping failed coercion under every pattern
\* whose keys it has, and the counts of a later mapping were returned
C6_Witness ==
    /\ Counted
    /\ TopPatternRaises(data)
    /\ Returning(FirstCountBearing(data)) = {}
    /\ counts.val = CountsAfter(data, FirstPath(CountBearingPaths(data)))
    /\ counts.val # <<0, 0, 0>>
    /\ ~counts.raised

---------------------------------------------------------------------------
(* What the specification says of detail extraction *)

Detailed == mode = "normalize" /\ pc = "detailed"

\* the document has no list of failure records: it is no mapping, the key
\* testFailures is missing or holds no sequence, or no element is a mapping
SectionAbsent(v) ==
    \/ ~IsDict(v)
    \/ ~HasKey(v, "testFailures")
    \/ ~IsList(Lookup(v, "testFailures"))
    \/ \A i \in 1..Len(Lookup(v, "testFailures").items) :
          ~IsDict(Lookup(v, "testFailures").items[i])

\* C7: detail extraction never raises, whatever the types of the fields of the
\* failure records, and yields no details when the detail section is absent or
\* malformed.
C7_DetailsNeverRaise ==
    Detailed =>
        /\ ~details.raised
        /\ SectionAbsent(data) => details.recs = <<>>

RecordKeys ==
    {"testName", "testIdentifierString", "testIdentifierURL", "targetName", "failureText"}

\* a failure record whose fields are texts
IsTextRecord(r) ==
    /\ IsDict(r)
    /\ \A key \in RecordKeys : HasKey(r, key) => IsStr(Lookup(r, key))

\* the text of a field, empty when the field is missing
TextField(r, key) == IF HasKey(r, key) THEN Lookup(r, key).s ELSE <<>>

\* the test identifier: testIdentifierString, else testIdentifierURL
TestIdentifier(r) ==
    IF TextField(r, "testIdentifierString") # <<>>
    THEN TextField(r, "testIdentifierString")
    ELSE TextField(r, "testIdentifierURL")

SlashPositions(chars) == {i \in 1..Len(chars) : chars[i] = "/"}

GreatestOf(S) == CHOOSE k \in S : \A j \in S : j <= k

\* the segment between the last two slashes, or from the start to the last slash
SecondToLastSegment(chars) ==
    LET last == GreatestOf(SlashPositions(chars))
        prev == GreatestOf({0} \cup {i \in SlashPositions(chars) : i < last})
    IN  SubSeq(chars, prev + 1, last - 1)

ExpectedSuite(r) ==
    LET id == TestIdentifier(r)
    IN  IF SlashPositions(id) # {} /\ SecondToLastSegment(id) # <<>>
        THEN SecondToLastSegment(id)
        ELSE TextField(r, "targetName")

ExpectedExcerpt(r) ==
    LET text == TextField(r, "failureText")
    IN  IF Len(text) <= ExcerptLen THEN text ELSE SubSeq(text, 1, ExcerptLen)

\* the document holds a list of failures whose mappings have text fields
TextSection(v) ==
    /\ IsDict(v)
    /\ HasKey(v, "testFailures")
    /\ IsList(Lookup(v, "testFailures"))
    /\ \A i \in 1..Len(Lookup(v, "testFailures").items) :
          LET r == Lookup(v, "testFailures").items[i]
          IN  IsDict(r) => IsTextRecord(r)

Failures(v) == Lookup(v, "testFailures").items

HasTestName(r) == IsDict(r) /\ TextField(r, "testName") # <<>>

HasNameOrIdentifier(r) ==
    IsDict(r) /\ (TextField(r, "testName") # <<>> \/ TextField(r, "testIdentifierString") # <<>>)

NameOrIdentifier(r) ==
    IF TextField(r, "testName") # <<>> THEN TextField(r, "testName")
    ELSE TextField(r, "testIdentifierString")

\* record i of the details is the one the specification derives from failure r
DerivedFrom(rec, r, name) ==
    /\ rec.name = StrV(name)
    /\ rec.status = "Failed"
    /\ rec.suite = StrV(ExpectedSuite(r))
    /\ rec.failure = StrV(ExpectedExcerpt(r))
    /\ Len(rec.failure.s) <= ExcerptLen

---------------------------------------------------------------------------
(* What the specification says of the extractor invocation and of the      *)
(* orchestrator                                                            *)

\* a run that exited with status 0 and printed something that is not blank
Usable(run) ==
    /\ run.result.kind = "ran"
    /\ run.result.rc = 0
    /\ run.result.stdout.kind \in {"garbage", "json"}

\* the tool could be executed
Executed(run) == run.result.kind = "ran"

\* C9: the command variants run in the fixed order summary, legacy get, generic get;
\* the loop stops at the first variant that exits with status 0 and non-blank stdout
\* and returns that variant's stdout and command; nothing runs after such a success,
\* and a variant with non-zero exit or blank stdout is never accepted.
C9_FirstUsableVariant ==
    mode = "pipeline" =>
        /\ Len(tool.ran) <= Len(Candidates)
        /\ \A j \in 1..Len(tool.ran) :
              /\ tool.ran[j].cmd = Candidates[j]
              /\ j < Len(tool.ran) => (Executed(tool.ran[j]) /\ ~Usable(tool.ran[j]))
        /\ (tool.ran # <<>> /\ Usable(tool.ran[Len(tool.ran)])) =>
              /\ tool.ret.done
              /\ tool.ret.stdout = tool.ran[Len(tool.ran)].result.stdout
              /\ tool.ret.cmd = tool.ran[Len(tool.ran)].cmd
        /\ (tool.ret.done /\ tool.ret.stdout # NoneText) =>
              /\ Usable(tool.ran[Len(tool.ran)])
              /\ tool.ret.stdout = tool.ran[Len(tool.ran)].result.stdout
        /\ (tool.ret.done /\ tool.ret.stdout = NoneText) =>
              ~Usable(tool.ran[Len(tool.ran)])
        /\ (~tool.ret.done /\ pc # "run_xcresulttool") =>
              tool.ran[Len(tool.ran)].result.kind = "oserror"

\* C9 witness: the first variant exited non-zero with text on stdout, the second
\* exited 0 with blank stdout, the third was accepted and its stdout returned
C9_Witness ==
    /\ mode = "pipeline"
    /\ Len(tool.ran) = 3
    /\ tool.ran[1].result.rc = 1
    /\ tool.ran[1].result.stdout = GarbageText
    /\ tool.ran[2].result.rc = 0
    /\ tool.ran[2].result.stdout = BlankText
    /\ tool.ret.done
    /\ tool.ret.stdout = JsonText(ScenarioA)
    /\ tool.ret.cmd = "get --format json"

\* every variant ran and printed nothing on stdout
AllStdoutEmpty ==
    /\ Len(tool.ran) = Len(Candidates)
    /\ \A j \in 1..Len(tool.ran) :
          Executed(tool.ran[j]) /\ tool.ran[j].result.stdout.kind \in {"empty", "blank"}

\* the stderr captured over the runs: that of the last run whose stderr is not
\* blank, or nothing
CapturedStderr ==
    LET said == {j \in 1..Len(tool.ran) : tool.ran[j].result.stderr \notin {"", " "}}
    IN  IF said = {} THEN "No error output captured."
        ELSE tool.ran[GreatestOf(said)].result.stderr

\* C10: when every command variant returns empty stdout, the orchestrator raises the
\* extraction-empty error with the last command and the captured stderr, the pipeline
\* aborts, and neither the HTML artifact nor the JSON sidecar is written.
C10_ExtractionEmpty ==
    (mode = "pipeline" /\ AllStdoutEmpty) =>
        /\ pc \in {"process", "done"}
        /\ fs = IdleFs
        /\ pc = "done" =>
              /\ outcome.kind = "ExtractError"
              /\ outcome.cmd = Candidates[Len(Candidates)]
              /\ outcome.err = CapturedStderr

\* C10 witness: the three variants printed nothing, the second said something on
\* stderr, and the run ended with the error that carries it
C10_Witness ==
    /\ mode = "pipeline"
    /\ AllStdoutEmpty
    /\ pc = "done"
    /\ tool.ran[3].result.stderr = ""
    /\ outcome.kind = "ExtractError"
    /\ outcome.err = "error 2"
    /\ outcome.cmd = "get --format json"
    /\ ~fs.html.written

\* the last run of the tool could not be started: the binary was not found
ToolNotFound ==
    /\ tool.ran # <<>>
    /\ tool.ran[Len(tool.ran)].result.kind = "notfound"

\* C11: when the tool binary cannot be located, the run ends with an error that is
\* neither the extraction-empty error nor the parse error, and the error carries the
\* attempted command and the underlying failure.
C11_ToolErrorDistinct ==
    (mode = "pipeline" /\ pc = "done" /\ ToolNotFound) =>
        /\ outcome.kind \notin {"returned", "ExtractError", "ParseError"}
        /\ outcome.cmd = tool.ran[Len(tool.ran)].cmd
        /\ outcome.err = CouldNotExecute

\* the tool returned text that is not blank and is not JSON
ReturnedGarbage == tool.ret.done /\ tool.ret.stdout.kind = "garbage"

\* the tool returned nothing
ReturnedNothing == tool.ret.done /\ tool.ret.stdout.kind \in {"None", "empty"}

\* C12: when the tool output is non-empty and json.loads raises, the run ends with
\* the parse error and the HTML artifact is not written; the parse error is raised
\* for no other cause, and the extraction-empty error is not raised for this one.
C12_ParseErrorDistinct ==
    mode = "pipeline" =>
        /\ ReturnedGarbage =>
              /\ pc \in {"process", "parse", "done"}
              /\ ~fs.html.written
              /\ pc = "done" => outcome.kind = "ParseError"
        /\ outcome.kind = "ParseError" => (ReturnedGarbage /\ ~ReturnedNothing)
        /\ outcome.kind = "ExtractError" => (ReturnedNothing /\ ~ReturnedGarbage)

\* C12 witness: the tool printed text that is not JSON, the sidecar holds it, the
\* run ended with the parse error and no HTML
C12_Witness ==
    /\ mode = "pipeline"
    /\ pc = "done"
    /\ ReturnedGarbage
    /\ fs.json = GarbageText
    /\ outcome.kind = "ParseError"
    /\ ~fs.html.written

\* the tool returned text that parses as JSON
ReturnedJson == tool.ret.done /\ tool.ret.stdout.kind = "json"

\* C13: given tool output that parses as JSON and a destination that can be written,
\* the run returns the triple of extract_counts and the HTML artifact is written, for
\* both values of include_details (screenshots not requested).
C13_NeverFailsOnMiss ==
    (mode = "pipeline" /\ pc = "done" /\ ReturnedJson /\ ~cfg.include_screenshots
     /\ outcome.kind # "WriteError") =>
        /\ outcome.kind = "returned"
        /\ fs.html.written
        /\ outcome.val = extract_counts(tool.ret.stdout.doc).val

\* the export step failed: the directory, the subprocess, or the manifest
ExportFailed ==
    \/ screenshots.export.kind \in {"mkdir raises", "timeout", "process error",
                                    "non-zero exit", "no manifest", "unparsable manifest"}
    \/ /\ screenshots.export.kind = "manifest"
       /\ ManifestIndex(screenshots.export.manifest).raised

\* C14: a failure of the attachment export never ends the run with an error: the
\* HTML artifact is written and the triple is returned (unless the HTML itself
\* cannot be written).
C14_ExportNeverFatal ==
    (mode = "pipeline" /\ pc = "done" /\ ExportFailed) =>
        /\ outcome.kind \in {"returned", "WriteError"}
        /\ outcome.kind = "returned" =>
              (fs.html.written /\ outcome.val = extract_counts(tool.ret.stdout.doc).val)

\* the PDF step did not fail: no PDF was asked for, or write_pdf returned
PdfDone == cli.pdf_output_path => cli.pdf \in {"written", "not created", "empty"}

\* C18: run_cli returns 0 exactly when the conversion returned and the PDF step, if
\* asked for, did not fail; it returns 1 otherwise, also when weasyprint is
\* unavailable.
C18_ExitCode ==
    (mode = "pipeline" /\ cli.exited) =>
        /\ cli.code \in {0, 1}
        /\ cli.code = 0 <=> (outcome.kind = "returned" /\ PdfDone)

\* json_str is truthy and the run is past the write of the sidecar
SidecarAttempted ==
    /\ tool.ret.done
    /\ tool.ret.stdout.kind \notin {"None", "empty"}
    /\ pc \notin {"run_xcresulttool", "process"}

\* how a run that is past the sidecar ends, told from everything but the sidecar
EndOfRun ==
    IF tool.ret.stdout.kind # "json" THEN "ParseError"
    ELSE IF details.raised THEN "TypeError"
    ELSE IF screenshots.export.kind = "mkdir raises" THEN "OSError"
    ELSE IF screenshots.export.kind = "manifest"
            /\ ManifestIndex(screenshots.export.manifest).raised THEN "TypeError"
    ELSE IF fs.html.written THEN "returned"
    ELSE "WriteError"

\* C19: with non-empty tool output the sidecar holds the raw text unchanged or, when
\* its write failed, nothing; the failure is not fatal: the run goes on and ends as
\* the rest of the run decides, whether the sidecar was written or not.
C19_SidecarNonFatal ==
    (mode = "pipeline" /\ SidecarAttempted) =>
        /\ fs.json \in {NoneText, tool.ret.stdout}
        /\ fs.json # NoneText => fs.order[1] = "json"
        /\ pc = "done" => outcome.kind = EndOfRun
        /\ outcome.kind = "returned" =>
              (fs.html.written /\ outcome.val = extract_counts(tool.ret.stdout.doc).val)

\* C19 witness: the sidecar could not be written, and the run wrote the HTML and
\* returned the counts of Scenario A
C19_Witness ==
    /\ mode = "pipeline"
    /\ SidecarAttempted
    /\ fs.json = NoneText
    /\ pc = "done"
    /\ outcome.kind = "returned"
    /\ outcome.val = <<10, 2, 1>>
    /\ fs.html.written
    /\ fs.order = <<"html">>

---------------------------------------------------------------------------
(* What the specification says of the manifest parser and of the report,   *)
(* stated on the manifest and read back from the pieces of the document    *)

\* the positions of a set, in ascending order
RECURSIVE InOrder(_)
InOrder(S) == IF S = {} THEN <<>> ELSE <<LeastOf(S)>> \o InOrder(S \ {LeastOf(S)})

\* the interpolated text that follows position p, up to the next piece of the template
TextRunAt(html, p) ==
    LET ends == {q \in (p + 1)..Len(html) : html[q].k = "markup"}
        stop == IF ends = {} THEN Len(html) + 1 ELSE LeastOf(ends)
    IN  [i \in 1..(stop - p - 1) |-> html[p + i].c]

\* where a piece of the template stands in the document
PositionsOf(html, s) == {p \in 1..Len(html) : html[p].k = "markup" /\ html[p].c = s}

\* the text after the one occurrence of a piece of the template
ValueAfter(html, s) == TextRunAt(html, LeastOf(PositionsOf(html, s)))

\* the three numerals of the chart data, read back from "data: [a, b, c]"
ChartValues(html) ==
    LET pa == LeastOf(PositionsOf(html, "data: ["))
        a == TextRunAt(html, pa)
        pb == pa + Len(a) + 1
        b == TextRunAt(html, pb)
        pk == pb + Len(b) + 1
        k == TextRunAt(html, pk)
    IN  IF html[pb].c = ", " /\ html[pk].c = ", " /\ html[pk + Len(k) + 1].c = "],"
        THEN <<a, b, k>> ELSE <<>>

\* the numeral of a panel of the summary
PanelValue(html, label) ==
    ValueAfter(html, IF label = "Total"
                     THEN "<div class=kpi><div class=label>Total</div><div class=value>"
                     ELSE IF label = "Passed"
                     THEN "<div class=kpi><div class=label>Passed</div><div class=value>"
                     ELSE IF label = "Failed"
                     THEN "<div class=kpi><div class=label>Failed</div><div class=value>"
                     ELSE "<div class=kpi><div class=label>Skipped</div><div class=value>")

Rendered == mode = "render" /\ pc = "rendered"

\* C16: for every triple, the three chart data values of the document read back as
\* (passed, failed, skipped) in that order, the summary panels show the same three
\* numbers, and the total shown is passed + failed + skipped.
C16_CountsRoundTrip ==
    Rendered =>
        LET html == fs.html.text
            chart == ChartValues(html)
        IN  /\ Len(chart) = 3
            /\ \A i \in 1..3 : IntOfStr(chart[i]) = Ok(counts.val[i])
            /\ IntOfStr(PanelValue(html, "Passed")) = Ok(counts.val[1])
            /\ IntOfStr(PanelValue(html, "Failed")) = Ok(counts.val[2])
            /\ IntOfStr(PanelValue(html, "Skipped")) = Ok(counts.val[3])
            /\ IntOfStr(PanelValue(html, "Total"))
                  = Ok(counts.val[1] + counts.val[2] + counts.val[3])

\* C16 witness: the report of (120, 0, 34) with a details table shows the total 154
\* and the chart data 120, 0, 34
C16_Witness ==
    /\ Rendered
    /\ counts.val = <<120, 0, 34>>
    /\ details.recs # <<>>
    /\ PanelValue(fs.html.text, "Total") = <<"1", "5", "4">>
    /\ ChartValues(fs.html.text) = <<<<"1", "2", "0">>, <<"0">>, <<"3", "4">>>>

\* where the rows of the tests start: a <tr> followed by a plain <td>
TestRowStarts(html) ==
    {p \in 1..(Len(html) - 1) :
        /\ html[p].k = "markup" /\ html[p].c = "<tr>"
        /\ html[p + 1].k = "markup" /\ html[p + 1].c = "<td>"}

\* the end of the row that starts at p
RowEnd(html, p) == LeastOf({q \in p..Len(html) : html[q].k = "markup" /\ html[q].c = "</tr>"})

NameCell(html, p) == TextRunAt(html, p + 1)

SuiteCell(html, p) == TextRunAt(html, p + Len(NameCell(html, p)) + 3)

\* the failure cell of the row, empty when the table has no such column
FailureCell(html, p) ==
    LET at == {q \in p..RowEnd(html, p) :
                  html[q].k = "markup" /\ html[q].c = "<td font-size:12px>"}
    IN  IF at = {} THEN <<>> ELSE TextRunAt(html, LeastOf(at))

\* the names that stand for a character after "&"
EntityNames ==
    {<<"a", "m", "p", ";">>, <<"l", "t", ";">>, <<"g", "t", ";">>, <<"q", "u", "o", "t", ";">>, <<"#", "x", "2", "7", ";">>, <<"#", "3", "9", ";">>}

\* a text is escaped: no "<", ">" or quote, and every "&" starts an entity
IsEscaped(chars) ==
    /\ \A i \in 1..Len(chars) : chars[i] \notin {"<", ">", "\"", "'"}
    /\ \A i \in 1..Len(chars) :
          chars[i] = "&" =>
              \E e \in EntityNames :
                  /\ i + Len(e) <= Len(chars)
                  /\ SubSeq(chars, i + 1, i + Len(e)) = e

\* C17: the name, the suite and the failure excerpt of every row stand escaped in the
\* document: no "<", ">", "&" or quote of a value appears as itself.
C17_Escaped ==
    Rendered =>
        \A p \in TestRowStarts(fs.html.text) :
            /\ IsEscaped(NameCell(fs.html.text, p))
            /\ IsEscaped(SuiteCell(fs.html.text, p))
            /\ IsEscaped(FailureCell(fs.html.text, p))

\* the alt texts of the images under the test row that starts at p: those of the
\* screenshot row that follows it, if one does
ShownUnder(html, p) ==
    LET e == RowEnd(html, p)
    IN  IF /\ e + 2 <= Len(html)
           /\ html[e + 1].k = "markup" /\ html[e + 1].c = "<tr>"
           /\ html[e + 2].k = "markup" /\ html[e + 2].c = "<td colspan="
        THEN LET alts == InOrder({q \in (e + 1)..RowEnd(html, e + 1) :
                                    html[q].k = "markup" /\ html[q].c = " alt="})
             IN  [i \in 1..Len(alts) |-> TextRunAt(html, alts[i])]
        ELSE <<>>

\* a occurs in b as a run of neighbouring characters
Occurs(a, b) ==
    \E i \in 1..(Len(b) + 1) : \E j \in (i - 1)..Len(b) : SubSeq(b, i, j) = a

\* the characters after the last "/"
AfterLastSlash(chars) ==
    IF SlashPositions(chars) = {} THEN chars
    ELSE SubSeq(chars, GreatestOf(SlashPositions(chars)) + 1, Len(chars))

\* the keys of the index that equal the identifier, hold it, share its last segment
EqualKeys(id, idx) == {i \in 1..Len(idx) : idx[i].key = id}

HoldingKeys(id, idx) == {i \in 1..Len(idx) : Occurs(id.s, idx[i].key.s)}

SegmentKeys(id, idx) ==
    {i \in 1..Len(idx) : id.s # <<>> /\ AfterLastSlash(idx[i].key.s) = AfterLastSlash(id.s)}

\* the names a row shows for the files of an entry of the index
ShownNames(files) == [i \in 1..Min(Len(files), MaxImgs) |-> files[i].s]

\* the entry the claim chooses: equality, then the first key that holds the
\* identifier, then the first key with the same last segment; 0 for none
ByPriority(id, idx) ==
    IF EqualKeys(id, idx) # {} THEN LeastOf(EqualKeys(id, idx))
    ELSE IF HoldingKeys(id, idx) # {} THEN LeastOf(HoldingKeys(id, idx))
    ELSE IF SegmentKeys(id, idx) # {} THEN LeastOf(SegmentKeys(id, idx))
    ELSE 0

\* the entry chosen by equality, then by the first key, in the order of the index,
\* that holds the identifier or has the same last segment; 0 for none
ByFirstMatch(id, idx) ==
    IF EqualKeys(id, idx) # {} THEN LeastOf(EqualKeys(id, idx))
    ELSE IF HoldingKeys(id, idx) \cup SegmentKeys(id, idx) # {}
    THEN LeastOf(HoldingKeys(id, idx) \cup SegmentKeys(id, idx))
    ELSE 0

Chosen(rule, id, idx) ==
    IF rule = "priority" THEN ByPriority(id, idx) ELSE ByFirstMatch(id, idx)

\* the rows of the document show, for each record, the files of the entry that the
\* rule chooses
ShowsChosen(rule) ==
    LET html == fs.html.text
        rows == InOrder(TestRowStarts(html))
        idx == screenshots.map.entries
    IN  /\ Len(rows) = Len(details.recs)
        /\ \A r \in 1..Len(rows) :
              LET at == Chosen(rule, details.recs[r].testIdentifierString, idx)
              IN  ShownUnder(html, rows[r])
                     = IF at = 0 THEN <<>> ELSE ShownNames(idx[at].files)

\* C15 as claimed: a row's screenshots are those of the key equal to the identifier,
\* else of the first key that holds the identifier, else of the first key with the
\* same last segment: a key that holds the identifier is chosen over one that
\* matches by last segment only.
C15_MatchByPriority == Rendered => ShowsChosen("priority")

\* C15 as the code has it: a row's screenshots are those of the key equal to the
\* identifier; when there is none, those of the first key, in the order of the
\* index, that holds the identifier or has the same last segment.
C15_ExactThenFirstMatch == Rendered => ShowsChosen("first match")

\* C15 witness: the index has B/f before x/A/f, the row of A/f shows the file of B/f
C15_Witness ==
    /\ Rendered
    /\ Len(screenshots.map.entries) = 2
    /\ screenshots.map.entries[1].key = IdBf
    /\ screenshots.map.entries[2].key = IdXAf
    /\ Len(details.recs) = 1
    /\ details.recs[1].testIdentifierString = IdAf
    /\ ShownUnder(fs.html.text, LeastOf(TestRowStarts(fs.html.text))) = <<FileB.s>>

\* the entry list of a manifest: the array itself, or the list under the first of the
\* three keys that holds one that is not empty
EntryList(m) ==
    LET names == <<"testAttachmentDetails", "testAttachmentDetailsList", "attachments">>
        holding == {k \in 1..3 : /\ IsDict(m)
                                 /\ HasKey(m, names[k])
                                 /\ IsList(Lookup(m, names[k]))
                                 /\ Lookup(m, names[k]).items # <<>>}
    IN  IF IsList(m) THEN m.items
        ELSE IF holding = {} THEN <<>>
        ELSE Lookup(m, names[LeastOf(holding)]).items

\* the test identifier of an entry: testIdentifier, or the URL form when it has none
Identifier(e) ==
    IF HasKey(e, "testIdentifier") /\ Lookup(e, "testIdentifier") # EmptyStr
    THEN Lookup(e, "testIdentifier")
    ELSE IF HasKey(e, "testIdentifierURL") THEN Lookup(e, "testIdentifierURL")
    ELSE EmptyStr

UrlForm(e) == IF HasKey(e, "testIdentifierURL") THEN Lookup(e, "testIdentifierURL") ELSE EmptyStr

\* the exported file names of an entry, in the order of its attachments
ExportedNames(e) ==
    LET atts == IF HasKey(e, "attachments") /\ IsList(Lookup(e, "attachments"))
                THEN Lookup(e, "attachments").items ELSE <<>>
        Named(att) == /\ IsDict(att)
                      /\ HasKey(att, "exportedFileName")
                      /\ Lookup(att, "exportedFileName") # EmptyStr
        named == SelectSeq(atts, Named)
    IN  [i \in 1..Len(named) |-> Lookup(named[i], "exportedFileName")]

\* C20: for a raw array and for an object that holds the entry list under one of the
\* three keys, the index has one key for the identifier of each entry that has an
\* identifier and exported files, and one for its URL form when that differs; a key
\* maps to the exported file names, in order, of the last entry that bears it; the
\* keys stand in the order in which the entries first bear them; without any such
\* entry there is no index.
C20_ManifestIndex ==
    (mode = "render" /\ pc \in {"indexed", "rendered"}) =>
        LET es == EntryList(data)
            idx == screenshots.map.entries
            filed == {i \in 1..Len(es) :
                        /\ IsDict(es[i])
                        /\ Identifier(es[i]) # EmptyStr
                        /\ ExportedNames(es[i]) # <<>>}
            Bearers(k) == {i \in filed : Identifier(es[i]) = k \/ UrlForm(es[i]) = k}
            keys == {Identifier(es[i]) : i \in filed}
                    \cup {UrlForm(es[i]) : i \in {j \in filed : UrlForm(es[j]) # EmptyStr}}
        IN  /\ screenshots.map.none <=> keys = {}
            /\ Len(idx) = Cardinality(keys)
            /\ {idx[j].key : j \in 1..Len(idx)} = keys
            /\ \A j \in 1..Len(idx) :
                  idx[j].files = ExportedNames(es[GreatestOf(Bearers(idx[j].key))])
            /\ \A j \in 1..Len(idx) : \A l \in (j + 1)..Len(idx) :
                  LET first == LeastOf(Bearers(idx[j].key))
                      next == LeastOf(Bearers(idx[l].key))
                  IN  first < next \/ (first = next /\ idx[j].key = Identifier(es[first]))

\* C20 witness: an object with the list under testAttachmentDetailsList, whose one
\* entry has two files and a URL form other than its identifier: two keys, the same
\* two files in order under each
C20_Witness ==
    /\ mode = "render"
    /\ pc = "indexed"
    /\ data = DictV(<<"testAttachmentDetailsList">>,
                    <<ListV(<<Entry(IdAf, UrlAf, ListV(<<Att(FileA), Att(FileB)>>))>>)>>)
    /\ screenshots.map = IndexOf(<<[key |-> IdAf, files |-> <<FileA, FileB>>],
                                   [key |-> UrlAf, files |-> <<FileA, FileB>>]>>)

---------------------------------------------------------------------------
(* What the specification says of fields that fail coercion and of empty   *)
(* fields, stated on the mapping itself                                    *)

\* the value of a field with the wrapper {"_value": x} taken off
Bare(v) == IF v.t = "dict" /\ HasKey(v, "_value") THEN Lookup(v, "_value") ELSE v

\* null, false, 0, an empty string or an empty container
IsEmptyValue(v) ==
    \/ v.t = "null"
    \/ v.t \in {"bool", "int", "float"} /\ v.n = 0
    \/ v.t = "str" /\ v.s = <<>>
    \/ v.t \in {"list", "dict"} /\ v.items = <<>>

\* what a field counts as: 0 when it is missing or empty, its integer when it is
\* integer-coercible, and no value otherwise
FieldReads(m, key) ==
    IF ~HasKey(m, key) THEN Ok(0)
    ELSE IF IsEmptyValue(Bare(Lookup(m, key))) THEN Ok(0)
    ELSE PyInt(Bare(Lookup(m, key)))

\* every field pattern k reads on m counts as something
PatternReads(m, k) == \A i \in 1..3 : FieldReads(m, FieldKeys(m, k)[i]).ok

\* the triple of pattern k on m from what its fields count as
TripleRead(m, k) ==
    LET a == FieldReads(m, FieldKeys(m, k)[1]).val
        f == FieldReads(m, FieldKeys(m, k)[2]).val
        s == FieldReads(m, FieldKeys(m, k)[3]).val
    IN  IF k = 2 THEN <<IF a - f - s > 0 THEN a - f - s ELSE 0, f, s>> ELSE <<a, f, s>>

\* the patterns below the top pattern of m whose keys m has and whose fields all
\* count as something
LowerPatterns(m) ==
    {j \in Patterns : j > TopPattern(m) /\ KeysOfPattern(m, j) /\ PatternReads(m, j)}

\* the top pattern of the first count-bearing mapping fails on one of its fields
TopPatternFails ==
    /\ Counted
    /\ CountBearingPaths(data) # {}
    /\ ~PatternReads(FirstCountBearing(data), TopPattern(FirstCountBearing(data)))

\* C24: when a pattern matches a mapping's key set but coercion of one of its fields
\* fails, the remaining patterns of lower priority are still tried on that same
\* mapping before the next mapping: the counts are those of the first lower pattern
\* whose keys the mapping has and whose fields are read; a mapping with a non-numeric
\* passedTests, failedTests 1 and totalTestCount 10 yields (9, 1, 0).
C24_LowerPatternsSameMapping ==
    /\ (Counted /\ data = FallThrough) => counts.val = <<9, 1, 0>>
    /\ (TopPatternFails /\ LowerPatterns(FirstCountBearing(data)) # {}) =>
          LET m == FirstCountBearing(data)
          IN  /\ ~counts.raised
              /\ counts.val = TripleRead(m, LeastOf(LowerPatterns(m)))

\* C24 witness: the top pattern failed, a lower pattern gave the counts, and a later
\* mapping of the document would have given other counts
C24_Witness ==
    /\ TopPatternFails
    /\ LowerPatterns(FirstCountBearing(data)) # {}
    /\ counts.val = <<9, 1, 0>>
    /\ \E q \in ReturningPaths(data) :
          /\ Before(FirstPath(CountBearingPaths(data)), q)
          /\ MatchNode(NodeAt(data, q)).val # counts.val

\* C25: a count field whose unwrapped value is null, false, 0, an empty string or an
\* empty container counts as 0 and does not make the pattern fail; the pattern fails
\* exactly when one of its fields is non-empty and not integer-coercible.
C25_EmptyCountsAsZero ==
    (Counted /\ CountBearingPaths(data) # {}) =>
        LET m == FirstCountBearing(data)
            k == TopPattern(m)
        IN  /\ PatternReads(m, k) <=> Blocks(m)[k].kind = "ok"
            /\ PatternReads(m, k) =>
                  /\ ~counts.raised
                  /\ counts.val = TripleRead(m, k)

\* C25 witness: a field that is empty and not an integer was read as 0 and the
\* pattern gave the counts
C25_Witness ==
    /\ Counted
    /\ CountBearingPaths(data) # {}
    /\ LET m == FirstCountBearing(data)
           k == TopPattern(m)
       IN  /\ PatternReads(m, k)
           /\ \E i \in 1..3 :
                 /\ HasKey(m, FieldKeys(m, k)[i])
                 /\ Bare(Lookup(m, FieldKeys(m, k)[i])).t \in {"null", "str", "list", "dict"}
                 /\ counts.val[i] = 0
           /\ counts.val[2] = 1

---------------------------------------------------------------------------
(* What the specification says of a row without a test identifier *)

\* the rows of the document whose record has an empty test identifier
EmptyIdRows == {r \in 1..Len(details.recs) : details.recs[r].testIdentifierString = EmptyStr}

\* C26: when a non-empty index is supplied, a detail row whose test identifier is
\* empty is rendered with the screenshots of the first key of the index, in its
\* iteration order, instead of with none.
C26_EmptyIdFirstKey ==
    (Rendered /\ TruthyIndex(screenshots.map)) =>
        LET html == fs.html.text
            rows == InOrder(TestRowStarts(html))
            idx == screenshots.map.entries
        IN  /\ Len(rows) = Len(details.recs)
            /\ \A r \in EmptyIdRows :
                  /\ ShownUnder(html, rows[r]) = ShownNames(idx[1].files)
                  /\ ShownUnder(html, rows[r]) # <<>>

\* C26 witness: the index has two keys with different files, and the row without an
\* identifier shows the files of the first
C26_Witness ==
    /\ Rendered
    /\ Len(screenshots.map.entries) = 2
    /\ screenshots.map.entries[1].files # screenshots.map.entries[2].files
    /\ EmptyIdRows = {1}
    /\ ShownUnder(fs.html.text, LeastOf(TestRowStarts(fs.html.text)))
          = ShownNames(screenshots.map.entries[1].files)
    /\ ShownUnder(fs.html.text, LeastOf(TestRowStarts(fs.html.text))) # <<>>

---------------------------------------------------------------------------
(* What the specification says of the order of the sidecar, the parse and  *)
(* the HTML artifact                                                       *)

\* the place of a file in the order of the writes, 0 when it was not written
WrittenAt(name) ==
    IF \E i \in 1..Len(fs.order) : fs.order[i] = name
    THEN CHOOSE i \in 1..Len(fs.order) : fs.order[i] = name
    ELSE 0

\* the run ended with "Failed to parse JSON summary"
ParseFailed == mode = "pipeline" /\ pc = "done" /\ outcome.kind = "ParseError"

\* C27 as claimed: the sidecar is written before the parse and before the HTML, and
\* after a run that fails with the JSON parse error the sidecar exists with the raw
\* text while the HTML artifact does not.
C27_SidecarThenParse ==
    /\ (mode = "pipeline" /\ fs.html.written /\ WrittenAt("json") # 0) =>
          WrittenAt("json") < WrittenAt("html")
    /\ ParseFailed =>
          /\ fs.json = tool.ret.stdout
          /\ fs.json.kind = "garbage"
          /\ ~fs.html.written

\* C27 as the code has it: the write of the sidecar is attempted before the parse
\* and before the HTML, so a sidecar that is written precedes the HTML; after a run
\* that fails with the JSON parse error the HTML artifact does not exist, and the
\* sidecar exists with the raw text unless its write raised, which is swallowed and
\* leaves no sidecar.
C27_SidecarAttemptThenParse ==
    /\ (mode = "pipeline" /\ fs.html.written /\ WrittenAt("json") # 0) =>
          WrittenAt("json") < WrittenAt("html")
    /\ (mode = "pipeline" /\ SidecarAttempted) =>
          (IF fs.json_error THEN fs.json = NoneText ELSE fs.json = tool.ret.stdout)
    /\ ParseFailed =>
          /\ SidecarAttempted
          /\ tool.ret.stdout.kind = "garbage"
          /\ ~fs.html.written

\* C27 witness: the tool printed text that is not JSON, the sidecar holds it, the
\* run ended with the parse error and no HTML
C27_Witness ==
    /\ ParseFailed
    /\ fs.json = GarbageText
    /\ ~fs.json_error
    /\ fs.order = <<"json">>
    /\ ~fs.html.written

---------------------------------------------------------------------------
(* What the specification says of the configuration: the counts do not     *)
(* depend on it, and the attachments are exported under details and        *)
(* screenshots only                                                        *)

\* the counts of a tool output, whatever the configuration
CountsOfOutput(text) == extract_counts(text.doc).val

\* the run has parsed the tool output
Parsed ==
    /\ mode = "pipeline"
    /\ tool.ret.done
    /\ tool.ret.stdout.kind = "json"
    /\ pc \in {"details", "html", "done"}

\* C21: the counts the orchestrator returns are those of the tool output alone, the
\* same for every configuration and whatever the detail section holds: after the
\* detail extraction, and after the export it may start, the counts are what
\* extract_counts gave, and the document is the one that was parsed.
C21_CountsIndependent ==
    /\ Parsed =>
          /\ counts.val = CountsOfOutput(tool.ret.stdout)
          /\ data = tool.ret.stdout.doc
    /\ (mode = "pipeline" /\ outcome.kind = "returned") =>
          /\ Parsed
          /\ outcome.val = CountsOfOutput(tool.ret.stdout)

\* C21 witness: details and screenshots were asked for, records were found, the
\* attachments were exported, and the run returned the counts of the summary
C21_Witness ==
    /\ mode = "pipeline"
    /\ outcome.kind = "returned"
    /\ cfg.include_details
    /\ cfg.include_screenshots
    /\ details.recs # <<>>
    /\ TruthyIndex(screenshots.map)
    /\ data = ScenarioE
    /\ outcome.val = <<0, 0, 0>>

\* the report of a run without details and without screenshots
PlainReport(text) ==
    build_html(CountsOfOutput(text)[1], CountsOfOutput(text)[2], CountsOfOutput(text)[3],
               SourceName, DefaultTitle, <<>>, NullV, NoneIndex)

\* the export of attachments was attempted
ExportAttempted == screenshots.export.kind # "none" \/ fs.screenshot_dir

\* C22: the attachment export runs only when include_details and include_screenshots
\* are both set and the detail extraction gave at least one record; with
\* include_details false, include_screenshots has no effect: no export is attempted
\* and the artifact is the report without details and screenshots, as with
\* include_screenshots false; main hands on include_screenshots false when details
\* are not requested.
C22_ExportOnlyWithDetails ==
    mode = "pipeline" =>
        /\ ExportAttempted =>
              (cfg.include_details /\ cfg.include_screenshots /\ details.recs # <<>>)
        /\ ~cfg.include_details =>
              /\ ~ExportAttempted
              /\ details = NoDetails
              /\ screenshots = NoScreenshots
              /\ fs.html.written => fs.html.text = PlainReport(tool.ret.stdout)
        /\ (cfg \in MainConfigs /\ ~cfg.include_details) => ~cfg.include_screenshots

\* C22 witness: screenshots were asked for without details on a summary that has
\* failures; nothing was exported and the plain report was written
C22_Witness ==
    /\ mode = "pipeline"
    /\ ~cfg.include_details
    /\ cfg.include_screenshots
    /\ pc = "done"
    /\ outcome.kind = "returned"
    /\ extract_details_from_summary(data).recs # <<>>
    /\ ~ExportAttempted
    /\ fs.html.text = PlainReport(tool.ret.stdout)

---------------------------------------------------------------------------
(* What the specification says of the output path of the desktop front end *)

\* the name up to its last ".", and from it; a name without a "." inside has no suffix
BeforeLastDot(name) ==
    LET dots == {i \in 2..(Len(name) - 1) : name[i] = "."}
    IN  IF dots = {} THEN name ELSE SubSeq(name, 1, GreatestOf(dots) - 1)

FromLastDot(name) ==
    LET dots == {i \in 2..(Len(name) - 1) : name[i] = "."}
    IN  IF dots = {} THEN <<>> ELSE SubSeq(name, GreatestOf(dots), Len(name))

\* <stem>_<n><suffix>
NumberedName(name, n, suffix) == BeforeLastDot(name) \o <<"_">> \o IntChars(n) \o suffix

\* path is <stem>_<n><suffix> of the given name for the smallest n >= 1 that names
\* no file
SmallestFree(path, given, suffix, files) ==
    \E n \in 1..(Cardinality(files) + 1) :
        /\ path = NumberedName(given, n, suffix)
        /\ path \notin files
        /\ \A k \in 1..(n - 1) : NumberedName(given, k, suffix) \in files

\* "Generate HTML" ran with a bundle
Generated == mode = "gui" /\ gui.last.ran

\* what a generation did, with the suffix the numbered names get
GeneratesFresh(suffix) ==
    /\ gui.last.given \notin gui.last.before => gui.last.out_path = gui.last.given
    /\ gui.last.given \in gui.last.before =>
          SmallestFree(gui.last.out_path, gui.last.given, suffix, gui.last.before)
    /\ gui.last.out_path \notin gui.last.before
    /\ gui.last.html_written => gui.last.out_path \in gui.files

\* C23 as claimed: _next_available_report_path returns the given path when it does
\* not exist, and otherwise <stem>_<n><suffix>, with the suffix of the given path,
\* for the smallest n >= 1 that does not exist; the returned path names no existing
\* file, and no generation writes its HTML to a path that existed when it started.
C23_NextAvailableKeepsSuffix == Generated => GeneratesFresh(FromLastDot(gui.last.given))

\* C23 as the code has it: the numbered names of a path without suffix get the
\* suffix .html; the rest as claimed.
C23_NextAvailableHtmlSuffix ==
    Generated =>
        GeneratesFresh(IF FromLastDot(gui.last.given) = <<>> THEN HtmlSuffix
                       ELSE FromLastDot(gui.last.given))

\* C23 witness: report.html and report_1.html existed, report_2.html did not, and the
\* HTML went to report_2.html
C23_Witness ==
    /\ Generated
    /\ gui.last.given = ReportHtml
    /\ {ReportHtml, Report1Html} \subseteq gui.last.before
    /\ gui.last.out_path = Report2Html
    /\ gui.last.html_written
    /\ Report2Html \in gui.files

---------------------------------------------------------------------------
(* What the specification says of the upload directory of the web front end *)

\* request r came with a zip alone and the zip was unpacked
Unpacked(r) ==
    /\ web.req[r].pc # "idle"
    /\ web.req[r].local_path = NoLocalPath
    /\ web.req[r].upload \in {"bundle", "nested bundle", "bundle contents"}

\* request r came with a local path
WithLocalPath(r) == web.req[r].pc # "idle" /\ web.req[r].local_path # NoLocalPath

\* something is left of the upload directory of request r
JobDirThere(r) == \E p \in web.paths : IsUnder(JobDir(r), p)

\* C28: the upload directory of an unpacked zip, the ancestor of the bundle directly
\* under UPLOAD_DIR, is there as long as the conversion runs and is removed once it
\* has finished, whether it returned or raised; a local path is preferred over an
\* uploaded file, which is then not unpacked, and nothing at the local path or
\* elsewhere outside the request's own upload directory is deleted.
C28_UploadRemovedAfterConversion ==
    mode = "web" =>
        /\ \A r \in Requests :
              /\ Unpacked(r) =>
                    /\ web.req[r].cleanup_path = JobDir(r)
                    /\ web.req[r].pc \in {"convert", "finally"} =>
                          /\ JobDir(r) \in web.paths
                          /\ web.req[r].xcresult_path \in web.paths
                    /\ web.req[r].pc \in {"finally", "done"} => web.req[r].found
                    /\ web.req[r].pc = "done" =>
                          /\ web.req[r].converted \in {"returned", "raised"}
                          /\ ~JobDirThere(r)
              /\ WithLocalPath(r) =>
                    /\ ~JobDirThere(r)
                    /\ web.req[r].cleanup_path = <<>>
                    /\ web.req[r].pc \in {"convert", "finally"} =>
                          web.req[r].xcresult_path = web.req[r].local_path.path
        /\ PathsAtStart \subseteq web.paths

\* C28 witness: one request came with a zip, its conversion raised and its upload
\* directory is gone; the other came with a local path and a zip, its report was
\* written and the local bundle is still there
C28_Witness ==
    /\ mode = "web"
    /\ Unpacked(1)
    /\ web.req[1].pc = "done"
    /\ web.req[1].converted = "raised"
    /\ ~JobDirThere(1)
    /\ WithLocalPath(2)
    /\ web.req[2].upload = "bundle"
    /\ web.req[2].pc = "done"
    /\ web.req[2].converted = "returned"
    /\ web.req[2].local_path = LocalBundle
    /\ LocalBundle.path \in web.paths

===========================================================================
